---------------------------- MODULE Spec2Model ----------------------------
(***************************************************************************)
(* A model of the new-tab page script, src/script.js.  The file holds      *)
(* three successive revisions of the page script; the state machine        *)
(* follows the last one (lines 696-1093).  The merge of the first          *)
(* revision, the only one that consults the bookmark provider (lines       *)
(* 194-263), is modelled as a pure operator beside the last one's.         *)
(***************************************************************************)
EXTENDS Integers, Sequences, FiniteSets, TLC

(***************************************************************************)
(* Strings.  A JavaScript string is a record that keeps the structure the  *)
(* script looks at: a plain text, an absolute URL (hostname labels, raw    *)
(* path, query, fragment), a bare hostname, or the value undefined.  Two   *)
(* strings are equal exactly when their records are equal.                 *)
(***************************************************************************)
Text(t) == [kind |-> "text", host |-> <<>>, path |-> "", search |-> "", hash |-> "", txt |-> t]

Url(h, p, s, f) == [kind |-> "url", host |-> h, path |-> p, search |-> s, hash |-> f, txt |-> ""]

HostText(h) == [kind |-> "host", host |-> h, path |-> "", search |-> "", hash |-> "", txt |-> ""]

Undefined == [kind |-> "undef", host |-> <<>>, path |-> "", search |-> "", hash |-> "", txt |-> ""]

\* JavaScript truthiness of a string-or-undefined value.
Truthy(s) == s.kind # "undef" /\ s # Text("")

\* new URL(s) does not throw.
UrlParses(s) == s.kind = "url"

\* new URL(s).hostname, as its sequence of labels.
Hostname(s) == s.host

\* Faulty variant: the hostname is the key as it is.
StripWwwNever(h) == h

\* hostname.replace(/^www\./, ''): the prefix "www." needs a label after it.
StripWww(h) == IF Len(h) > 1 /\ h[1] = "www" THEN Tail(h) ELSE h

\* new URL(s).pathname: an empty raw path is normalised to "/".
Pathname(s) == IF s.path = "" THEN "/" ELSE s.path

\* String.prototype.toLowerCase on the texts of the model.
LowerTxt(t) ==
    CASE t = "Foo" -> "foo"
      [] t = "A"   -> "a"
      [] t = "Ax"  -> "ax"
      [] t = "B"   -> "b"
      [] OTHER     -> t

ToLowerCase(s) == IF s.kind = "text" THEN Text(LowerTxt(s.txt)) ELSE s

(***************************************************************************)
(* Sequence helpers: Array.prototype.slice / sort (stable) / find.         *)
(***************************************************************************)
Min(a, b) == IF a < b THEN a ELSE b

\* arr.slice(0, n)
Slice(s, n) == SubSeq(s, 1, Min(n, Len(s)))

RECURSIVE InsertDesc(_, _)
\* Insert the pair x into sorted, after every pair whose key is >= x.k.
InsertDesc(sorted, x) ==
    IF sorted = <<>> THEN <<x>>
    ELSE IF Head(sorted).k >= x.k
         THEN <<Head(sorted)>> \o InsertDesc(Tail(sorted), x)
         ELSE <<x>> \o sorted

RECURSIVE SortPairsFrom(_, _, _)
SortPairsFrom(pairs, i, acc) ==
    IF i > Len(pairs) THEN acc
    ELSE SortPairsFrom(pairs, i + 1, InsertDesc(acc, pairs[i]))

\* arr.sort((a, b) => key(b) - key(a)): a stable sort, descending by key;
\* keys[i] is the key of s[i].
SortDesc(s, keys) ==
    LET pairs  == [i \in 1..Len(s) |-> [k |-> keys[i], v |-> s[i]]]
        sorted == SortPairsFrom(pairs, 1, <<>>)
    IN  [i \in 1..Len(s) |-> sorted[i].v]

(***************************************************************************)
(* Suggestion entries.  Every entry carries every field; a field the       *)
(* script leaves undefined is Undefined (strings), 0 (numbers), FALSE      *)
(* (isGroup) or <<>> (items).                                              *)
(***************************************************************************)
SearchEntry(t) ==
    [text |-> t, url |-> Undefined, type |-> "search", id |-> 0,
     lastVisitTime |-> 0, isGroup |-> FALSE, items |-> <<>>, latestVisitTime |-> 0]

\* The mapping of a raw history record to a suggestion (mappedItems).
MappedItem(item) ==
    [text |-> IF Truthy(item.title) THEN item.title ELSE item.url,
     url |-> item.url, type |-> "history", id |-> item.id,
     lastVisitTime |-> item.lastVisitTime,
     isGroup |-> FALSE, items |-> <<>>, latestVisitTime |-> 0]

RECURSIVE UniqueFrom(_, _, _)
UniqueFrom(items, i, acc) ==
    IF i > Len(items) THEN acc
    ELSE IF Truthy(items[i].url) /\ ~\E j \in 1..Len(acc) : acc[j].url = items[i].url
         THEN UniqueFrom(items, i + 1, Append(acc, items[i]))
         ELSE UniqueFrom(items, i + 1, acc)

\* Faulty variant: every record with a truthy URL is kept.
UniqueHistoryItemsKeepAll(historyItems) ==
    SelectSeq(historyItems, LAMBDA item : Truthy(item.url))

\* uniqueHistoryItems: the first record of every truthy URL, in input order.
UniqueHistoryItems(historyItems) == UniqueFrom(historyItems, 1, <<>>)

\* The key of itemsByDomain for a URL that parses.
DomainOf(url) == StripWww(Hostname(url))

RECURSIVE DomainsFrom(_, _, _)
DomainsFrom(items, i, acc) ==
    IF i > Len(items) THEN acc
    ELSE IF UrlParses(items[i].url) /\ ~\E j \in 1..Len(acc) : acc[j] = DomainOf(items[i].url)
         THEN DomainsFrom(items, i + 1, Append(acc, DomainOf(items[i].url)))
         ELSE DomainsFrom(items, i + 1, acc)

\* itemsByDomain: the domains in insertion order, each with its records in
\* input order; a record whose URL does not parse is skipped.
ItemsByDomain(unique) ==
    LET domains == DomainsFrom(unique, 1, <<>>)
        InDomain(d, item) == UrlParses(item.url) /\ DomainOf(item.url) = d
    IN  [n \in 1..Len(domains) |->
            [domain |-> domains[n],
             items  |-> SelectSeq(unique, LAMBDA item : InDomain(domains[n], item))]]

\* items.find(item => pathname === '/' && search === '' && hash === '')
IsSimpleUrl(url) ==
    UrlParses(url) /\ Pathname(url) = "/" /\ url.search = "" /\ url.hash = ""

\* Faulty variant: the group's url is always that of its most recent item.
GroupUrlMostRecent(items) == items[1].url

\* groupUrl = simpleUrlItem ? simpleUrlItem.url : items[0].url
GroupUrl(items) ==
    LET simple == SelectSeq(items, LAMBDA item : IsSimpleUrl(item.url))
    IN  IF simple # <<>> THEN simple[1].url ELSE items[1].url

\* Faulty variant: every domain becomes a group (items.length > 0).
ProcessDomainGroupsAny(domain, rawItems) ==
    LET items == SortDesc(rawItems, [i \in 1..Len(rawItems) |-> rawItems[i].lastVisitTime])
    IN  [text |-> HostText(domain), url |-> items[1].url, type |-> "history",
         id |-> 0, lastVisitTime |-> 0, isGroup |-> TRUE,
         items |-> [i \in 1..Len(items) |-> MappedItem(items[i])],
         latestVisitTime |-> items[1].lastVisitTime]

\* One iteration of the loop over itemsByDomain.entries().
ProcessDomain(domain, rawItems) ==
    LET items == SortDesc(rawItems, [i \in 1..Len(rawItems) |-> rawItems[i].lastVisitTime])
        mappedItems == [i \in 1..Len(items) |-> MappedItem(items[i])]
    IN  IF Len(items) > 1
        THEN [text |-> HostText(domain), url |-> GroupUrl(items), type |-> "history",
              id |-> 0, lastVisitTime |-> 0, isGroup |-> TRUE,
              items |-> mappedItems, latestVisitTime |-> items[1].lastVisitTime]
        ELSE mappedItems[1]

\* a.latestVisitTime || a.lastVisitTime || 0
EffectiveTime(e) ==
    IF e.latestVisitTime # 0 THEN e.latestVisitTime
    ELSE IF e.lastVisitTime # 0 THEN e.lastVisitTime ELSE 0

\* Faulty variant: the entries are returned in the order of itemsByDomain.
groupHistoryItemsUnsorted(historyItems) ==
    LET byDomain  == ItemsByDomain(UniqueHistoryItems(historyItems))
    IN  [n \in 1..Len(byDomain) |-> ProcessDomain(byDomain[n].domain, byDomain[n].items)]

groupHistoryItems(historyItems) ==
    LET byDomain  == ItemsByDomain(UniqueHistoryItems(historyItems))
        processed == [n \in 1..Len(byDomain) |->
                         ProcessDomain(byDomain[n].domain, byDomain[n].items)]
    IN  SortDesc(processed, [n \in 1..Len(processed) |-> EffectiveTime(processed[n])])

(***************************************************************************)
(* The providers.  The history store of the state machine and the remote   *)
(* service's possible answers are small fixed sets; which answer arrives,  *)
(* and when, is the environment's choice.                                  *)
(***************************************************************************)
Raw(i, u, t, v) == [id |-> i, url |-> u, title |-> t, lastVisitTime |-> v]

UrlA  == Url(<<"a", "com">>, "/", "", "")

UrlAx == Url(<<"a", "com">>, "/x", "", "")

UrlB  == Url(<<"www", "b", "com">>, "/y", "", "")

UrlNewTab == Url(<<"newtab">>, "/", "", "")

\* The browser's history at page load.
InitialHistory ==
    { Raw(1, UrlA, Text("A"), 1), Raw(2, UrlAx, Text("Ax"), 2),
      Raw(3, UrlB, Text("B"), 3), Raw(4, UrlNewTab, Text("New Tab"), 4) }

UrlBz == Url(<<"b", "com">>, "/z", "", "")

UrlCz == Url(<<"c", "com">>, "/z", "", "")

\* A history with two domains of two pages each and one of a single page.
ViewHistory ==
    InitialHistory \cup {Raw(5, UrlBz, Text("Bz"), 5), Raw(6, UrlCz, Text("Cz"), 6)}

\* The input texts the user can produce; " " is whitespace only.
InputValues == {"", " ", "a", "b"}

\* String.prototype.trim on the input texts of the model.
Trim(v) == IF v = " " THEN "" ELSE v

\* The history provider's substring match of a record against a text filter;
\* the empty filter matches every record.
Matches(item, text) ==
    \/ text = ""
    \/ text = "a" /\ item.id \in {1, 2}
    \/ text = "b" /\ item.id \in {3, 5}

RECURSIVE SeqOfSet(_)
\* The records of a set, most recently visited first (ties by id).
SeqOfSet(set) ==
    IF set = {} THEN <<>>
    ELSE LET top == CHOOSE x \in set : \A y \in set :
                        \/ x.lastVisitTime > y.lastVisitTime
                        \/ x.lastVisitTime = y.lastVisitTime /\ x.id <= y.id
         IN  <<top>> \o SeqOfSet(set \ {top})

\* chrome.history.search({text, maxResults}) against the store.
HistorySearch(store, text, maxResults) ==
    Slice(SeqOfSet({item \in store : Matches(item, text)}), maxResults)

\* One element of data[1] in the remote answer: item[0] is the completion
\* with its markup; bold tells whether it carries <b>...</b> tags around text.
RemoteItem(t, b) == [text |-> t, bold |-> b]

\* item[0].replace(/<[^>]+>/g, ''): the completion without its tags.
StripTags(item) == item.text

\* The remote answers of the state machine: a status that is ok or not, with
\* a body that is a completion list or does not parse as one, or no answer at
\* all (the network fails).
RemoteBody == <<RemoteItem(Text("ax"), TRUE), RemoteItem(Text("foo"), FALSE)>>

RemoteResponses ==
    { [kind |-> "response", ok |-> TRUE, parses |-> TRUE, body |-> RemoteBody],
      [kind |-> "response", ok |-> FALSE, parses |-> TRUE, body |-> RemoteBody],
      [kind |-> "response", ok |-> TRUE, parses |-> FALSE, body |-> <<>>],
      [kind |-> "networkError", ok |-> FALSE, parses |-> FALSE, body |-> <<>>] }

AbortedResponse == [kind |-> "aborted", ok |-> FALSE, parses |-> FALSE, body |-> <<>>]

(***************************************************************************)
(* Bounds of the state machine.                                            *)
(***************************************************************************)
\* AbortControllers created after the first one (one per aggregation started).
MaxGen == 4

\* Timers pending at once.
MaxTimers == 2

\* Items of a group of the panel: the pages of one domain in the history.
MaxItems == 2

\* deleteUrl calls pending at once.
MaxDeletes == 1

(***************************************************************************)
(* The page.                                                               *)
(***************************************************************************)
VARIABLES
    inputValue,         \* searchInput.value
    focused,            \* document.activeElement === searchInput
    userFocusedInput,   \* the flag of the same name
    historyAvailable,   \* typeof chrome.history !== 'undefined'
    historyStore,       \* the records of the browser's history
    timers,             \* pending setTimeout callbacks: [id, args]
    timeoutId,          \* the debounce closure's timeoutId (0: undefined)
    abortController,    \* the current AbortController, by number
    aborted,            \* the controllers whose signal is aborted
    aggs,               \* aggregations with a provider request in flight
    matchesList,        \* the rows of #matches-list
    display,            \* matchesList.style.display
    suggestionsActive,  \* searchForm has class suggestions-active
    expanded,           \* indices of rows with class expanded
    staleRenders,       \* history: kinds of aggregation rendered after a later one started
    lastRender,         \* history: the last aggregation passed to displaySuggestions
    staleDrops,         \* history: a fetchSuggestions call returned at signal.aborted
    hung,               \* history: a fetchSuggestions call can never pass Promise.all
    viewLog,            \* history: the last change of the panel, and the panel before it
    deletes,            \* chrome.history.deleteUrl calls not yet acknowledged: their urls
    selectedIndex,      \* navigator: cursor into the visible sequence, from 0; -1: none
    originalTypedQuery, \* navigator: the input text at the first movement of a session
    moved,              \* navigator: the cursor has moved in this session
    isInitialView,      \* navigator: the list is the empty-query, history-only one
    inputText,          \* navigator: the text the input shows
    typedText,          \* history: the text the user typed last
    location,           \* window.location.href: this page, or where it was sent
    createdTabs,        \* the chrome.tabs.create calls made: [url, active]
    lastCommit,         \* history: the last submit or row mousedown, and the sink before it
    windowFocused,      \* the window has the system's focus
    closedBy,           \* history: the listener that closed an open panel, since the last focus or input
    burst,              \* history: the debounced calls since no timer was pending
    runs,               \* history: args the debounced function ran with, this burst
    fnIn,               \* the arguments of a function applied on its own
    fnOut,              \* its results
    fnDone              \* whether it has been applied

vars == <<inputValue, focused, userFocusedInput, historyAvailable, historyStore,
          timers, timeoutId, abortController, aborted, aggs, matchesList, display,
          suggestionsActive, expanded, staleRenders, lastRender, staleDrops, hung,
          viewLog, deletes, burst, runs, fnIn, fnOut, fnDone,
          selectedIndex, originalTypedQuery, moved, isInitialView, inputText, typedText,
          location, createdTabs, lastCommit, windowFocused, closedBy>>

pageVars == <<inputValue, focused, userFocusedInput, historyAvailable, historyStore,
              timers, timeoutId, abortController, aborted, aggs, matchesList, display,
              suggestionsActive, expanded, staleRenders, lastRender, staleDrops, hung,
              viewLog, deletes, burst, runs,
              selectedIndex, originalTypedQuery, moved, isInitialView, inputText, typedText,
              location, createdTabs, lastCommit, windowFocused, closedBy>>

fnVars == <<fnIn, fnOut, fnDone>>

navVars == <<selectedIndex, originalTypedQuery, moved, isInitialView, inputText, typedText>>

sinkVars == <<location, createdTabs, lastCommit>>

windowVars == <<windowFocused, closedBy>>

\* The part of the state the aggregation and rendering functions read and
\* write, as one record, so that calls compose.
Page ==
    [abortController |-> abortController, aborted |-> aborted, aggs |-> aggs,
     matchesList |-> matchesList, display |-> display,
     suggestionsActive |-> suggestionsActive, expanded |-> expanded,
     staleRenders |-> staleRenders, lastRender |-> lastRender,
     staleDrops |-> staleDrops, viewLog |-> viewLog]

SetPage(st) ==
    /\ abortController' = st.abortController
    /\ aborted' = st.aborted
    /\ aggs' = st.aggs
    /\ matchesList' = st.matchesList
    /\ display' = st.display
    /\ suggestionsActive' = st.suggestionsActive
    /\ expanded' = st.expanded
    /\ staleRenders' = st.staleRenders
    /\ lastRender' = st.lastRender
    /\ staleDrops' = st.staleDrops
    /\ viewLog' = st.viewLog

NoRender ==
    [gen |-> 0, kind |-> "none", query |-> "", maxResults |-> 0, googKind |-> "none", googOk |-> FALSE, googParses |-> FALSE,
     historySuggestions |-> <<>>, googleSuggestions |-> <<>>, combined |-> <<>>]

\* History: the panel changes by event; open, openTexts and display are the
\* expanded rows, their texts and the display before it, row the row it is
\* about.
NoViewLog ==
    [event |-> "none", row |-> 0, open |-> {}, openTexts |-> {}, display |-> "none"]

LogView(st, event, row) ==
    [st EXCEPT !.viewLog = [event |-> event, row |-> row, open |-> st.expanded,
                            openTexts |-> {st.matchesList[i].text : i \in st.expanded},
                            display |-> st.display]]

\* Faulty variant: the panel is hidden but its rows are left in place.
clearSuggestionsHideOnly(st) ==
    [LogView(st, "clear", 0) EXCEPT !.suggestionsActive = FALSE, !.display = "none"]

\* matchesList.innerHTML = '' drops every row and with it every expanded class.
clearSuggestions(st) ==
    [LogView(st, "clear", 0) EXCEPT !.suggestionsActive = FALSE, !.matchesList = <<>>,
                                    !.display = "none", !.expanded = {}]

\* Faulty variant: an empty list empties the panel and leaves it open.
displaySuggestionsNoHide(st, suggestions) ==
    [LogView(st, "render", 0) EXCEPT
        !.suggestionsActive = TRUE, !.display = "block",
        !.matchesList = suggestions, !.expanded = {}]

\* matchesList.innerHTML = '' drops every row and with it every expanded class;
\* the rows built anew carry none.
displaySuggestions(st, suggestions) ==
    IF Len(suggestions) > 0
    THEN [LogView(st, "render", 0) EXCEPT
             !.suggestionsActive = TRUE, !.display = "block",
             !.matchesList = suggestions, !.expanded = {}]
    ELSE clearSuggestions(st)

RemoveAgg(a, g) == [x \in DOMAIN a \ {g} |-> a[x]]

AddAgg(a, g, rec) == [x \in DOMAIN a \cup {g} |-> IF x = g THEN rec ELSE a[x]]

\* The body of fetchGoogleSuggestions on the outcome of fetch(): the parsed
\* completions, or [] when fetch or response.json() throws.
fetchGoogleSuggestions(resp) ==
    IF resp.kind = "response" /\ resp.parses
    THEN [i \in 1..Len(resp.body) |-> SearchEntry(StripTags(resp.body[i]))]
    ELSE <<>>

\* combined.filter((s, index, self) => index === self.findIndex(x => x.text === s.text))
UniqueByText(combined) ==
    LET keep == {i \in 1..Len(combined) :
                    \A j \in 1..(i - 1) : combined[j].text # combined[i].text}
        RECURSIVE Pick(_)
        Pick(i) == IF i > Len(combined) THEN <<>>
                   ELSE IF i \in keep THEN <<combined[i]>> \o Pick(i + 1)
                   ELSE Pick(i + 1)
    IN  Pick(1)

\* The merge of fetchSuggestions: what it passes to displaySuggestions.
MergeSuggestions(historySuggestions, googleSuggestions) ==
    Slice(UniqueByText(historySuggestions \o googleSuggestions), 10)

\* Faulty variant: the check of signal.aborted is left out.
SignalAbortedNever(abortedSet, g) == FALSE

\* if (signal.aborted) return;
SignalAborted(abortedSet, g) == g \in abortedSet

\* History: aggregation g, of the given kind, is passed to displaySuggestions.
\* It is stale when a later aggregation has started, that is, when its
\* controller is no longer the current one.
NoteRender(st, g, a, combined) ==
    [st EXCEPT !.staleRenders = IF g # st.abortController THEN @ \cup {a.kind} ELSE @,
               !.lastRender = [gen |-> g, kind |-> a.kind, query |-> a.query,
                               maxResults |-> a.maxResults,
                               googKind |-> a.googKind, googOk |-> a.googOk,
                               googParses |-> a.googParses,
                               historySuggestions |-> a.historySuggestions,
                               googleSuggestions |-> a.googleSuggestions,
                               combined |-> combined]]

\* fetchSuggestions after Promise.all has resolved.
FinishFetch(st, g) ==
    LET a == st.aggs[g]
        gone == [st EXCEPT !.aggs = RemoveAgg(st.aggs, g)]
        combined == MergeSuggestions(a.historySuggestions, a.googleSuggestions)
    IN  IF SignalAborted(st.aborted, g) THEN [gone EXCEPT !.staleDrops = TRUE]
        ELSE displaySuggestions(NoteRender(gone, g, a, combined), combined)

\* Faulty variant: the merge runs as soon as the remote fetch has settled.
SettleGoogleEager(st, g, resp) ==
    LET a  == [st.aggs[g] EXCEPT !.goog = "done", !.googKind = resp.kind,
                                 !.googOk = resp.ok, !.googParses = resp.parses,
                                 !.googleSuggestions = fetchGoogleSuggestions(resp)]
    IN  FinishFetch([st EXCEPT !.aggs[g] = a], g)

\* The remote fetch of aggregation g settles with resp.
SettleGoogle(st, g, resp) ==
    LET a  == [st.aggs[g] EXCEPT !.goog = "done", !.googKind = resp.kind,
                                 !.googOk = resp.ok, !.googParses = resp.parses,
                                 !.googleSuggestions = fetchGoogleSuggestions(resp)]
        st1 == [st EXCEPT !.aggs[g] = a]
    IN  IF a.hist = "done" THEN FinishFetch(st1, g) ELSE st1

\* Faulty variant: the controller is replaced without being aborted.
AbortSkipped(st) == st

\* abortController.abort(): the fetch that holds the signal rejects with an
\* AbortError before any other event is handled.
Abort(st) ==
    LET c   == st.abortController
        st1 == [st EXCEPT !.aborted = @ \cup {c}]
    IN  IF c \in DOMAIN st.aggs /\ st.aggs[c].goog = "pending"
        THEN SettleGoogle(st1, c, AbortedResponse)
        ELSE st1

\* The synchronous part of fetchSuggestions(query), up to Promise.all.
fetchSuggestions(st, query) ==
    LET st1 == Abort(st)
        g   == st.abortController + 1
        rec == [kind |-> "fetch", query |-> query, maxResults |-> 50,
                hist |-> IF historyAvailable THEN "pending" ELSE "done",
                historySuggestions |-> <<>>,
                goog |-> "pending", googKind |-> "none", googOk |-> FALSE,
                googParses |-> FALSE,
                googleSuggestions |-> <<>>]
    IN  [st1 EXCEPT !.abortController = g,
                    !.aggs = AddAgg(st1.aggs, g, rec)]

\* The synchronous part of showInitialSuggestions().
showInitialSuggestions(st) ==
    IF ~historyAvailable THEN st
    ELSE LET st1 == Abort(st)
             g   == st.abortController + 1
             rec == [kind |-> "initial", query |-> "", maxResults |-> 100,
                     hist |-> "pending", historySuggestions |-> <<>>,
                     goog |-> "none", googKind |-> "none", googOk |-> FALSE,
                     googParses |-> FALSE,
                     googleSuggestions |-> <<>>]
         IN  [st1 EXCEPT !.abortController = g,
                         !.aggs = AddAgg(st1.aggs, g, rec)]

\* Faulty variant: the records titled 'New Tab' are not filtered out.
InitialSuggestionsUnfiltered(historyItems) ==
    Slice(groupHistoryItems(SelectSeq(historyItems, LAMBDA item : Truthy(item.url))), 10)

\* The callback of showInitialSuggestions: what it passes to displaySuggestions.
InitialSuggestions(historyItems) ==
    LET filtered == SelectSeq(historyItems,
                        LAMBDA item : Truthy(item.url) /\ item.title # Text("New Tab"))
        suggestions == groupHistoryItems(filtered)
    IN  Slice(suggestions, 10)

\* The branch shared by the focus and input listeners and handleDeleteSuggestion.
Refresh(st, query) ==
    IF query # "" THEN fetchSuggestions(st, query) ELSE showInitialSuggestions(st)

(***************************************************************************)
(* The debounce closure around fetchSuggestions.                           *)
(***************************************************************************)
\* The id setTimeout returns: one no pending timer holds.
FreshTimerId(pending) ==
    CHOOSE i \in 1..(Cardinality(pending) + 1) : \A t \in pending : t.id # i

\* clearTimeout(timeoutId)
ClearTimeout(pending, id) == {t \in pending : t.id # id}

\* Faulty variant: the call does not clear the pending timer.
DebounceNoClear(pending, id, query) ==
    LET new == FreshTimerId(pending)
    IN  [pending |-> pending \cup {[id |-> new, args |-> query]}, timeoutId |-> new]

\* debouncedFetchSuggestions(query): the timers pending after the call, and
\* the closure's timeoutId.
Debounce(pending, id, query) ==
    LET cleared == ClearTimeout(pending, id)
        new     == FreshTimerId(cleared)
    IN  [pending |-> cleared \cup {[id |-> new, args |-> query]}, timeoutId |-> new]

\* History of the debounced calls: the arguments of the last call, and
\* whether it was the only call (1) or not (2) since no timer was pending.
NoBurst == [args |-> "none", calls |-> 0]

(***************************************************************************)
(* Initial state: the page has loaded, nothing is typed, shown or pending. *)
(***************************************************************************)
\* A navigation target: the url of an entry as it is, or a string built from a
\* text, character by character; and the page itself, where the view starts.
ThisPage == [from |-> "page", url |-> Undefined, chars |-> <<>>]

UrlTarget(u) == [from |-> "url", url |-> u, chars |-> <<>>]

TextTarget(c) == [from |-> "text", url |-> Undefined, chars |-> c]

NoCommit ==
    [kind |-> "none", text |-> Undefined, url |-> Undefined, button |-> 0, shiftKey |-> FALSE,
     ctrlKey |-> FALSE, metaKey |-> FALSE, input |-> "", location |-> ThisPage,
     createdTabs |-> <<>>]

NoInput == [historyItems |-> <<>>, bookmarkItems |-> <<>>, response |-> AbortedResponse]

NoOutput ==
    [historySuggestions |-> <<>>, googleSuggestions |-> <<>>, combined |-> <<>>,
     bookmarkSuggestionsV1 |-> <<>>, historySuggestionsV1 |-> <<>>,
     googleSuggestionsV1 |-> <<>>, combinedV1 |-> <<>>]

\* The page once loaded, on a browser whose history is store.
PageStart(store) ==
    /\ inputValue = ""
    /\ focused = FALSE
    /\ userFocusedInput = FALSE
    /\ historyAvailable \in BOOLEAN
    /\ historyStore = store
    /\ timers = {}
    /\ timeoutId = 0
    /\ abortController = 0
    /\ aborted = {}
    /\ aggs = <<>>
    /\ matchesList = <<>>
    /\ display = "none"
    /\ suggestionsActive = FALSE
    /\ expanded = {}
    /\ staleRenders = {}
    /\ lastRender = NoRender
    /\ staleDrops = FALSE
    /\ hung = FALSE
    /\ viewLog = NoViewLog
    /\ deletes = <<>>
    /\ selectedIndex = -1
    /\ originalTypedQuery = Text("")
    /\ moved = FALSE
    /\ isInitialView = FALSE
    /\ inputText = Text("")
    /\ typedText = Text("")
    /\ location = ThisPage
    /\ createdTabs = <<>>
    /\ lastCommit = NoCommit
    /\ windowFocused = TRUE
    /\ closedBy = "none"
    /\ burst = NoBurst
    /\ runs = <<>>

PageInit == PageStart(InitialHistory)

Init ==
    /\ PageInit
    /\ fnIn = NoInput
    /\ fnOut = NoOutput
    /\ fnDone = FALSE

(***************************************************************************)
(* Events.                                                                 *)
(***************************************************************************)
\* The input gains focus: both focus listeners run, in registration order.
Focus ==
    /\ ~focused
    /\ abortController + 2 <= MaxGen
    /\ focused' = TRUE
    /\ userFocusedInput' = TRUE
    /\ SetPage(Refresh(Refresh(Page, Trim(inputValue)), Trim(inputValue)))
    /\ UNCHANGED <<inputValue, historyAvailable, historyStore, timers, timeoutId,
                   hung, deletes, burst, runs>>
    /\ UNCHANGED <<fnVars, navVars, sinkVars, windowFocused>>
    /\ closedBy' = "none"

\* The user edits the text: the input listener.
Input(v) ==
    /\ focused
    /\ v # inputValue
    /\ inputValue' = v
    /\ IF Trim(v) # ""
       THEN /\ timers' = Debounce(timers, timeoutId, Trim(v)).pending
            /\ timeoutId' = Debounce(timers, timeoutId, Trim(v)).timeoutId
            /\ Cardinality(timers') <= MaxTimers
            /\ burst' = [args |-> Trim(v),
                         calls |-> IF timers = {} THEN 1 ELSE Min(burst.calls + 1, 2)]
            /\ runs' = IF timers = {} THEN <<>> ELSE runs
            /\ UNCHANGED <<abortController, aborted, aggs, matchesList, display,
                           suggestionsActive, expanded, staleRenders, lastRender,
                           staleDrops, viewLog>>
       ELSE /\ abortController + 1 <= MaxGen
            /\ SetPage(showInitialSuggestions(Page))
            /\ UNCHANGED <<timers, timeoutId, burst, runs>>
    /\ UNCHANGED <<focused, userFocusedInput, historyAvailable, historyStore, hung,
                   deletes>>
    /\ UNCHANGED <<fnVars, navVars, sinkVars, windowFocused>>
    /\ closedBy' = "none"

\* A debounce timer fires: func.apply(this, args).
TimerFires(t) ==
    /\ t \in timers
    /\ abortController + 1 <= MaxGen
    /\ timers' = timers \ {t}
    /\ runs' = Append(runs, t.args)
    /\ SetPage(fetchSuggestions(Page, t.args))
    /\ UNCHANGED <<inputValue, focused, userFocusedInput, historyAvailable,
                   historyStore, timeoutId, hung, deletes, burst>>
    /\ UNCHANGED <<fnVars, navVars, sinkVars, windowVars>>

\* The history provider calls back for aggregation g.
HistoryCallback(g) ==
    /\ g \in DOMAIN aggs
    /\ aggs[g].hist = "pending"
    /\ LET a == aggs[g] IN
       IF a.kind = "fetch"
       THEN LET items == HistorySearch(historyStore, a.query, a.maxResults)
                st1 == [Page EXCEPT !.aggs[g].hist = "done",
                                    !.aggs[g].historySuggestions = groupHistoryItems(items)]
            IN  SetPage(IF a.goog = "done" THEN FinishFetch(st1, g) ELSE st1)
       ELSE LET historyItems == HistorySearch(historyStore, a.query, a.maxResults)
                shown == InitialSuggestions(historyItems)
                st1 == [Page EXCEPT !.aggs = RemoveAgg(aggs, g)]
            IN  SetPage(displaySuggestions(
                            NoteRender(st1, g, [a EXCEPT !.historySuggestions = shown], shown),
                            shown))
    /\ UNCHANGED <<inputValue, focused, userFocusedInput, historyAvailable,
                   historyStore, timers, timeoutId, hung, deletes, burst, runs>>
    /\ UNCHANGED <<fnVars, navVars, sinkVars, windowVars>>

\* The history provider fails: the callback runs with undefined results and
\* the TypeError it throws ends it.  In fetchSuggestions that is before
\* resolve, so Promise.all never resolves and no later event of the
\* aggregation has an effect: it leaves aggs, and hung records it.
HistoryFails(g) ==
    /\ g \in DOMAIN aggs
    /\ aggs[g].hist = "pending"
    /\ aggs' = RemoveAgg(aggs, g)
    /\ hung' = (hung \/ aggs[g].kind = "fetch")
    /\ UNCHANGED <<inputValue, focused, userFocusedInput, historyAvailable,
                   historyStore, timers, timeoutId, abortController, aborted,
                   matchesList, display, suggestionsActive, expanded, staleRenders,
                   lastRender, staleDrops, viewLog, deletes, burst, runs>>
    /\ UNCHANGED <<fnVars, navVars, sinkVars, windowVars>>

\* The remote service answers the fetch of aggregation g, or the network fails.
GoogleSettles(g, resp) ==
    /\ g \in DOMAIN aggs
    /\ aggs[g].goog = "pending"
    /\ SetPage(SettleGoogle(Page, g, resp))
    /\ UNCHANGED <<inputValue, focused, userFocusedInput, historyAvailable,
                   historyStore, timers, timeoutId, hung, deletes, burst, runs>>
    /\ UNCHANGED <<fnVars, navVars, sinkVars, windowVars>>

\* Escape with the input focused: clearSuggestions(), searchInput.blur().
Escape ==
    /\ focused
    /\ focused' = FALSE
    /\ userFocusedInput' = FALSE
    /\ SetPage(clearSuggestions(Page))
    /\ UNCHANGED <<inputValue, historyAvailable, historyStore, timers, timeoutId,
                   hung, deletes, burst, runs>>
    /\ UNCHANGED <<fnVars, navVars, sinkVars, windowFocused>>
    /\ closedBy' = IF display = "block" THEN "escape" ELSE closedBy

\* A mousedown outside .search-container; the input loses focus.
MouseDownOutside ==
    /\ focused \/ display = "block"
    /\ focused' = FALSE
    /\ userFocusedInput' = FALSE
    /\ SetPage(IF display = "block" THEN clearSuggestions(Page) ELSE Page)
    /\ UNCHANGED <<inputValue, historyAvailable, historyStore, timers, timeoutId,
                   hung, deletes, burst, runs>>
    /\ UNCHANGED <<fnVars, navVars, sinkVars, windowFocused>>
    /\ closedBy' = IF display = "block" THEN "outside" ELSE closedBy

\* Faulty variant: the second revision's handler, item.classList.toggle('expanded').
ToggleExpandedOnly(open, i) == IF i \in open THEN open \ {i} ELSE open \cup {i}

\* The arrow's mousedown handler on group row i: the rows with class expanded
\* after it.
ToggleExpanded(open, i) ==
    LET isCurrentlyExpanded == i \in open
        others == {j \in open : j = i}
    IN  IF ~isCurrentlyExpanded THEN others \cup {i} ELSE others \ {i}

\* A mousedown on the arrow of group row i.
ToggleArrow(i) ==
    /\ display = "block"
    /\ i \in 1..Len(matchesList)
    /\ matchesList[i].isGroup
    /\ expanded' = ToggleExpanded(expanded, i)
    /\ viewLog' = LogView(Page, "toggle", i).viewLog
    /\ UNCHANGED <<inputValue, focused, userFocusedInput, historyAvailable,
                   historyStore, timers, timeoutId, abortController, aborted, aggs,
                   matchesList, display, suggestionsActive, staleRenders,
                   lastRender, staleDrops, hung, deletes, burst, runs>>
    /\ UNCHANGED <<fnVars, navVars, sinkVars, windowVars>>

\* Faulty variant: the second revision's condition, suggestion.type === 'history'.
HasDeleteButtonV2(suggestion) == suggestion.type = "history"

\* createSuggestionItem gives a row a delete button when its entry is of type
\* history and is not a group.
HasDeleteButton(suggestion) == suggestion.type = "history" /\ ~suggestion.isGroup

\* The row a mousedown can reach: top-level row i (k = 0), or item k of group
\* row i, whose sublist shows while the group is expanded.
RowAt(i, k) == IF k = 0 THEN matchesList[i] ELSE matchesList[i].items[k]

RowShown(i, k) ==
    /\ display = "block"
    /\ i \in 1..Len(matchesList)
    /\ \/ k = 0
       \/ /\ matchesList[i].isGroup
          /\ i \in expanded
          /\ k \in 1..Len(matchesList[i].items)

\* chrome.history.deleteUrl({url}): every visit of the url leaves the history.
DeleteUrl(store, url) == {r \in store : r.url # url}

\* handleDeleteSuggestion asks the history provider to delete this entry's url.
CallsDeleteUrl(suggestion) ==
    suggestion.type = "history" /\ Truthy(suggestion.url) /\ historyAvailable

\* Faulty variant: the refresh is started with the call of deleteUrl.
handleDeleteSuggestionNoAwait(suggestion, row) ==
    /\ abortController + 1 <= MaxGen
    /\ SetPage(Refresh(LogView(Page, "delete", row), Trim(inputValue)))
    /\ IF CallsDeleteUrl(suggestion)
       THEN Len(deletes) < MaxDeletes /\ deletes' = Append(deletes, suggestion.url)
       ELSE UNCHANGED deletes

\* handleDeleteSuggestion(suggestion) up to its await, or to its end when it
\* has nothing to await; row is the row of the button, for the history.
handleDeleteSuggestion(suggestion, row) ==
    IF CallsDeleteUrl(suggestion)
    THEN /\ Len(deletes) < MaxDeletes
         /\ deletes' = Append(deletes, suggestion.url)
         /\ viewLog' = LogView(Page, "delete", row).viewLog
         /\ UNCHANGED <<abortController, aborted, aggs, matchesList, display,
                        suggestionsActive, expanded, staleRenders, lastRender,
                        staleDrops>>
    ELSE /\ abortController + 1 <= MaxGen
         /\ SetPage(Refresh(LogView(Page, "delete", row), Trim(inputValue)))
         /\ UNCHANGED deletes

\* A mousedown on the delete button of a row.
DeleteClick(i, k) ==
    /\ RowShown(i, k)
    /\ HasDeleteButton(RowAt(i, k))
    /\ handleDeleteSuggestion(RowAt(i, k), i)
    /\ UNCHANGED <<inputValue, focused, userFocusedInput, historyAvailable,
                   historyStore, timers, timeoutId, hung, burst, runs>>
    /\ UNCHANGED <<fnVars, navVars, sinkVars, windowVars>>

\* The history provider acknowledges the n-th pending deleteUrl: the rest of
\* handleDeleteSuggestion runs.
DeleteAck(n) ==
    /\ n \in 1..Len(deletes)
    /\ abortController + 1 <= MaxGen
    /\ historyStore' = DeleteUrl(historyStore, deletes[n])
    /\ deletes' = [j \in 1..(Len(deletes) - 1) |-> IF j < n THEN deletes[j] ELSE deletes[j + 1]]
    /\ SetPage(Refresh(LogView(Page, "deleted", 0), Trim(inputValue)))
    /\ UNCHANGED <<inputValue, focused, userFocusedInput, historyAvailable,
                   timers, timeoutId, hung, burst, runs>>
    /\ UNCHANGED <<fnVars, navVars, sinkVars, windowVars>>

Next ==
    \/ Focus
    \/ \E v \in InputValues : Input(v)
    \/ \E t \in timers : TimerFires(t)
    \/ \E g \in DOMAIN aggs : HistoryCallback(g)
    \/ \E g \in DOMAIN aggs : HistoryFails(g)
    \/ \E g \in DOMAIN aggs, resp \in RemoteResponses : GoogleSettles(g, resp)
    \/ Escape
    \/ MouseDownOutside

Spec == Init /\ [][Next]_vars

(***************************************************************************)
(* The panel in use: the page opened on ViewHistory, with the arrows and   *)
(* the delete buttons of the rows.                                         *)
(***************************************************************************)
OkResponse == [kind |-> "response", ok |-> TRUE, parses |-> TRUE, body |-> RemoteBody]

ViewInit ==
    /\ PageStart(ViewHistory)
    /\ historyAvailable = TRUE
    /\ fnIn = NoInput
    /\ fnOut = NoOutput
    /\ fnDone = FALSE

ViewNext ==
    \/ Focus
    \/ Input("b")
    \/ \E t \in timers : TimerFires(t)
    \/ \E g \in DOMAIN aggs : HistoryCallback(g)
    \/ \E g \in DOMAIN aggs : GoogleSettles(g, OkResponse)
    \/ \E i \in 1..Len(matchesList) : ToggleArrow(i)
    \/ \E i \in 1..Len(matchesList), k \in 0..MaxItems : DeleteClick(i, k)
    \/ \E n \in 1..Len(deletes) : DeleteAck(n)
    \/ Escape

SpecView == ViewInit /\ [][ViewNext]_vars

(***************************************************************************)
(* The window losing and regaining the system's focus.                     *)
(***************************************************************************)
\* The window loses focus: the input's blur listener (script.js:728) and the
\* two window blur listeners run; document.activeElement stays what it was.
WindowBlur ==
    /\ windowFocused
    /\ windowFocused' = FALSE
    /\ userFocusedInput' = FALSE
    /\ SetPage(clearSuggestions(clearSuggestions(Page)))
    /\ closedBy' = IF display = "block" THEN "blur" ELSE closedBy
    /\ UNCHANGED <<inputValue, focused, historyAvailable, historyStore, timers,
                   timeoutId, hung, deletes, burst, runs>>
    /\ UNCHANGED <<fnVars, navVars, sinkVars>>

\* The window regains focus: the listener takes the focus off the input when
\* the flag is down, before the input's own focus event is dispatched.
WindowFocus ==
    /\ ~windowFocused
    /\ windowFocused' = TRUE
    /\ focused' = IF focused /\ ~userFocusedInput THEN FALSE ELSE focused
    /\ UNCHANGED <<inputValue, userFocusedInput, historyAvailable, historyStore, timers,
                   timeoutId, abortController, aborted, aggs, matchesList, display,
                   suggestionsActive, expanded, staleRenders, lastRender, staleDrops,
                   hung, viewLog, deletes, burst, runs, closedBy>>
    /\ UNCHANGED <<fnVars, navVars, sinkVars>>

\* Key and pointer events reach the page while the window has the focus;
\* timers and provider callbacks run whether it has or not.
CloseNext ==
    \/ windowFocused /\ Focus
    \/ \E v \in {"", "a"} : windowFocused /\ Input(v)
    \/ \E t \in timers : TimerFires(t)
    \/ \E g \in DOMAIN aggs : HistoryCallback(g)
    \/ \E g \in DOMAIN aggs : GoogleSettles(g, OkResponse)
    \/ windowFocused /\ Escape
    \/ windowFocused /\ MouseDownOutside
    \/ WindowBlur
    \/ WindowFocus

SpecClose == ViewInit /\ [][CloseNext]_vars

(***************************************************************************)
(* handleDeleteSuggestion on its own: applied to any entry on display,     *)
(* also to one whose row carries no delete button, while the page runs.    *)
(***************************************************************************)
NoCalls == [calls |-> 0]

DeleteInit ==
    /\ PageStart(ViewHistory)
    /\ historyAvailable = TRUE
    /\ fnIn = NoInput
    /\ fnOut = NoCalls
    /\ fnDone = FALSE

\* fnIn is the entry of the last call, fnOut counts the calls.
DeleteCall(i, k) ==
    /\ RowShown(i, k)
    /\ handleDeleteSuggestion(RowAt(i, k), i)
    /\ fnIn' = RowAt(i, k)
    /\ fnOut' = [calls |-> fnOut.calls + 1]
    /\ fnDone' = TRUE
    /\ UNCHANGED <<inputValue, focused, userFocusedInput, historyAvailable,
                   historyStore, timers, timeoutId, hung, burst, runs>>
    /\ UNCHANGED <<navVars, sinkVars, windowVars>>

DeleteNext ==
    \/ Focus
    \/ Input("b")
    \/ \E t \in timers : TimerFires(t)
    \/ \E g \in DOMAIN aggs : HistoryCallback(g)
    \/ \E g \in DOMAIN aggs : GoogleSettles(g, OkResponse)
    \/ \E i \in 1..Len(matchesList) : ToggleArrow(i)
    \/ \E i \in 1..Len(matchesList), k \in 0..MaxItems : DeleteCall(i, k)
    \/ \E n \in 1..Len(deletes) : DeleteAck(n)

SpecDelete == DeleteInit /\ [][DeleteNext]_vars

(***************************************************************************)
(* Navigation: performSearch (lines 912-929), the submit listener (lines   *)
(* 758-761) and the mousedown listener of a row (lines 1063-1071).  The    *)
(* string performSearch classifies is a sequence of characters.            *)
(***************************************************************************)
\* What String.prototype.trim removes, of the characters the model uses.
WhiteSpace == {" ", "\t"}

RECURSIVE TrimStart(_)
TrimStart(q) == IF q # <<>> /\ Head(q) \in WhiteSpace THEN TrimStart(Tail(q)) ELSE q

RECURSIVE TrimEnd(_)
TrimEnd(q) ==
    IF q # <<>> /\ q[Len(q)] \in WhiteSpace THEN TrimEnd(SubSeq(q, 1, Len(q) - 1)) ELSE q

\* query.trim()
TrimChars(q) == TrimEnd(TrimStart(q))

\* query.includes(c), for a one-character c
Includes(q, c) == \E i \in 1..Len(q) : q[i] = c

\* query.startsWith(p)
StartsWith(q, p) == Len(q) >= Len(p) /\ SubSeq(q, 1, Len(p)) = p

Http == <<"h", "t", "t", "p">>

\* 'https://'
HttpsScheme == <<"h", "t", "t", "p", "s", ":", "/", "/">>

\* 'https://www.google.com/search?q='
GoogleSearchUrl ==
    HttpsScheme \o <<"w", "w", "w", ".", "g", "o", "o", "g", "l", "e", ".", "c", "o", "m">>
                \o <<"/", "s", "e", "a", "r", "c", "h", "?", "q", "=">>

\* encodeURIComponent of one character: letters, digits and - _ . ! ~ * ' ( )
\* stay, every other character becomes the escape of its UTF-8 byte.
EncodeChar(c) ==
    CASE c = " "  -> <<"%", "2", "0">>
      [] c = "\t" -> <<"%", "0", "9">>
      [] c = "%"  -> <<"%", "2", "5">>
      [] c = "/"  -> <<"%", "2", "F">>
      [] c = ":"  -> <<"%", "3", "A">>
      [] OTHER    -> <<c>>

\* Faulty variant: nothing is escaped.
encodeURIComponentRaw(q) == q

RECURSIVE encodeURIComponent(_)
encodeURIComponent(q) ==
    IF q = <<>> THEN <<>> ELSE EncodeChar(Head(q)) \o encodeURIComponent(Tail(q))

\* The targetUrl performSearch computes from a trimmed, non-empty query.
TargetUrl(query) ==
    IF Includes(query, ".") /\ ~Includes(query, " ")
    THEN IF StartsWith(query, Http) THEN query ELSE HttpsScheme \o query
    ELSE GoogleSearchUrl \o encodeURIComponent(query)

\* The last statement of performSearch.
Navigate(sink, target, inNewTab) ==
    IF inNewTab
    THEN [sink EXCEPT !.createdTabs = Append(@, [url |-> target, active |-> FALSE])]
    ELSE [sink EXCEPT !.location = target]

\* Faulty variant: an empty query is searched for like any other.
performSearchEmptyToo(sink, query, url, inNewTab) ==
    IF Truthy(url) THEN Navigate(sink, UrlTarget(url), inNewTab)
    ELSE Navigate(sink, TextTarget(TargetUrl(TrimChars(query))), inNewTab)

\* performSearch(query, url, inNewTab) on the sink [location, createdTabs].
performSearch(sink, query, url, inNewTab) ==
    IF Truthy(url) THEN Navigate(sink, UrlTarget(url), inNewTab)
    ELSE IF TrimChars(query) = <<>> THEN sink
    ELSE Navigate(sink, TextTarget(TargetUrl(TrimChars(query))), inNewTab)

\* The characters of the texts the page model types and shows without a url:
\* the input values, of one character at most, and the remote completions.
CharsOf(t) ==
    CASE t = ""    -> <<>>
      [] t = "ax"  -> <<"a", "x">>
      [] t = "foo" -> <<"f", "o", "o">>
      [] OTHER     -> <<t>>

Sink == [location |-> location, createdTabs |-> createdTabs]

\* The page is still the document of the view.
Loaded == location = ThisPage

MaxTabs == 1

MouseButtons == {0, 1, 2}

\* The form is submitted, with whatever keys held: performSearch(searchInput.value).
Submit(shiftKey, ctrlKey, metaKey) ==
    LET sink == performSearch(Sink, CharsOf(inputValue), Undefined, FALSE)
    IN  /\ location' = sink.location
        /\ createdTabs' = sink.createdTabs
        /\ lastCommit' = [kind |-> "submit", text |-> Undefined, url |-> Undefined, button |-> 0,
                          shiftKey |-> shiftKey, ctrlKey |-> ctrlKey, metaKey |-> metaKey,
                          input |-> inputValue, location |-> location,
                          createdTabs |-> createdTabs]
        /\ UNCHANGED <<inputValue, focused, userFocusedInput, historyAvailable,
                       historyStore, timers, timeoutId, abortController, aborted, aggs,
                       matchesList, display, suggestionsActive, expanded, staleRenders,
                       lastRender, staleDrops, hung, viewLog, deletes, burst, runs>>
        /\ UNCHANGED <<fnVars, navVars, windowVars>>

\* Faulty variant: shift asks for a background tab too.
OpenInNewTabWithShift(button, shiftKey, ctrlKey, metaKey) ==
    button = 1 \/ shiftKey \/ ctrlKey \/ metaKey

\* e.button === 1 || e.ctrlKey || e.metaKey
OpenInNewTab(button, shiftKey, ctrlKey, metaKey) == button = 1 \/ ctrlKey \/ metaKey

\* Faulty variant: the row's listener resolves the input's text.
CommitArgsFromInput(suggestion) ==
    [query |-> CharsOf(inputValue), url |-> Undefined]

\* The arguments the row's listener gives performSearch: suggestion.text and
\* suggestion.url.  An entry whose text is not a plain text has a url.
CommitArgs(suggestion) ==
    [query |-> CharsOf(suggestion.text.txt), url |-> suggestion.url]

\* A mousedown on row <<i, k>>, outside its arrow and its delete button.
ItemMouseDown(i, k, button, shiftKey, ctrlKey, metaKey) ==
    /\ RowShown(i, k)
    /\ LET args == CommitArgs(RowAt(i, k))
           inNewTab == OpenInNewTab(button, shiftKey, ctrlKey, metaKey)
           sink == performSearch(Sink, args.query, args.url, inNewTab)
       IN  /\ Len(sink.createdTabs) <= MaxTabs
           /\ location' = sink.location
           /\ createdTabs' = sink.createdTabs
    /\ lastCommit' = [kind |-> "item", text |-> RowAt(i, k).text, url |-> RowAt(i, k).url,
                      button |-> button,
                      shiftKey |-> shiftKey, ctrlKey |-> ctrlKey, metaKey |-> metaKey,
                      input |-> inputValue, location |-> location,
                      createdTabs |-> createdTabs]
    /\ UNCHANGED <<inputValue, focused, userFocusedInput, historyAvailable,
                   historyStore, timers, timeoutId, abortController, aborted, aggs,
                   matchesList, display, suggestionsActive, expanded, staleRenders,
                   lastRender, staleDrops, hung, viewLog, deletes, burst, runs>>
    /\ UNCHANGED <<fnVars, navVars, windowVars>>

\* The page opened on ViewHistory until it is navigated away from.
CommitNext ==
    \/ Loaded /\ Focus
    \/ Loaded /\ Input("b")
    \/ Loaded /\ \E t \in timers : TimerFires(t)
    \/ Loaded /\ \E g \in DOMAIN aggs : HistoryCallback(g)
    \/ Loaded /\ \E g \in DOMAIN aggs : GoogleSettles(g, OkResponse)
    \/ Loaded /\ \E i \in 1..Len(matchesList) : ToggleArrow(i)
    \/ Loaded /\ \E shiftKey, ctrlKey, metaKey \in BOOLEAN : Submit(shiftKey, ctrlKey, metaKey)
    \/ Loaded /\ \E i \in 1..Len(matchesList), k \in 0..MaxItems, button \in MouseButtons,
                    shiftKey, ctrlKey, metaKey \in BOOLEAN :
                        ItemMouseDown(i, k, button, shiftKey, ctrlKey, metaKey)

SpecCommit == ViewInit /\ [][CommitNext]_vars

(***************************************************************************)
(* The first revision's aggregation (lines 194-263): the bookmark provider *)
(* is consulted, history is not grouped, and the three lists are merged    *)
(* bookmarks first.                                                        *)
(***************************************************************************)
BookmarkEntry(item) ==
    [text |-> IF Truthy(item.title) THEN item.title ELSE item.url,
     url |-> item.url, type |-> "bookmark", id |-> item.id,
     lastVisitTime |-> 0, isGroup |-> FALSE, items |-> <<>>, latestVisitTime |-> 0]

\* bookmarkItems.filter(item => item.url).map(...): a folder has no url.
fetchBookmarkSuggestionsV1(bookmarkItems) ==
    LET kept == SelectSeq(bookmarkItems, LAMBDA item : Truthy(item.url))
    IN  [i \in 1..Len(kept) |-> BookmarkEntry(kept[i])]

\* historyItems.filter(item => item.url && item.title !== 'New Tab').map(...)
fetchHistorySuggestionsV1(historyItems) ==
    LET kept == SelectSeq(historyItems,
                    LAMBDA item : Truthy(item.url) /\ item.title # Text("New Tab"))
    IN  [i \in 1..Len(kept) |->
            [MappedItem(kept[i]) EXCEPT !.lastVisitTime = 0]]

\* if (!response.ok) return []; (data[1] || []).map(text => ({text, type}))
fetchGoogleSuggestionsV1(resp) ==
    IF resp.kind = "response" /\ resp.ok /\ resp.parses
    THEN [i \in 1..Len(resp.body) |-> SearchEntry(resp.body[i].text)]
    ELSE <<>>

MergeSuggestionsV1(bookmarkSuggestions, historySuggestions, googleSuggestions) ==
    Slice(UniqueByText(bookmarkSuggestions \o historySuggestions \o googleSuggestions), 10)

(***************************************************************************)
(* groupHistoryItems on its own: every list of at most MaxGroupInput       *)
(* records of GroupRecords.                                                *)
(***************************************************************************)
MaxGroupInput == 4

UrlWwwA == Url(<<"www", "a", "com">>, "/", "", "")

UrlAq == Url(<<"a", "com">>, "/", "?q", "")

UrlC == Url(<<"c", "com">>, "/z", "", "#h")

GroupRecords ==
    { Raw(1, UrlA, Text("A"), 1),        \* https://a.com/
      Raw(2, UrlAx, Text("Ax"), 2),      \* https://a.com/x
      Raw(3, UrlWwwA, Text(""), 2),      \* https://www.a.com/, no title
      Raw(4, UrlAq, Text("Aq"), 3),      \* https://a.com/?q
      Raw(5, UrlB, Text("B"), 3),        \* https://www.b.com/y
      Raw(6, UrlB, Text("B2"), 1),       \* the same URL again
      Raw(7, UrlC, Text("A"), 1),        \* https://c.com/z#h, the title of record 1
      Raw(8, Text(""), Text("E"), 2),    \* no url
      Raw(9, Text("bad"), Text("X"), 3)  \* a url that does not parse
    }

RECURSIVE SeqsUpTo(_, _)
\* The sequences over set of length at most n.
SeqsUpTo(set, n) ==
    IF n = 0 THEN {<<>>}
    ELSE LET shorter == SeqsUpTo(set, n - 1)
         IN  shorter \cup {Append(q, x) : q \in {r \in shorter : Len(r) = n - 1}, x \in set}

GroupInit ==
    /\ PageInit
    /\ historyAvailable = TRUE
    /\ fnIn \in [historyItems : SeqsUpTo(GroupRecords, MaxGroupInput),
                 bookmarkItems : {<<>>}, response : {AbortedResponse}]
    /\ fnOut = NoOutput
    /\ fnDone = FALSE

ApplyGroup ==
    /\ ~fnDone
    /\ fnDone' = TRUE
    /\ fnOut' = [NoOutput EXCEPT !.historySuggestions = groupHistoryItems(fnIn.historyItems)]
    /\ UNCHANGED <<fnIn, pageVars>>

GroupNext == ApplyGroup

SpecGroup == GroupInit /\ [][GroupNext]_vars

(***************************************************************************)
(* performSearch on its own: every query of SearchQueries, with and        *)
(* without a url, in the view and in a background tab.                     *)
(***************************************************************************)
MaxQueryLen == 3

QueryAlphabet == {"a", ".", " ", "\t"}

\* What a query may start with: nothing, 'http', 'http://', 'https://', 'ftp://'.
QueryPrefixes ==
    {<<>>, Http, Http \o <<":", "/", "/">>, HttpsScheme, <<"f", "t", "p", ":", "/", "/">>}

QueryPaddings == {<<>>, <<" ">>}

OpenAiCom == <<"o", "p", "e", "n", "a", "i", ".", "c", "o", "m">>

BestPizzaNearMe ==
    <<"b", "e", "s", "t", " ", "p", "i", "z", "z", "a", " ", "n", "e", "a", "r", " ", "m", "e">>

SearchQueries ==
    {OpenAiCom, BestPizzaNearMe}
        \cup {l \o p \o b \o r : l \in QueryPaddings, p \in QueryPrefixes,
                                 b \in SeqsUpTo(QueryAlphabet, MaxQueryLen),
                                 r \in QueryPaddings}

SearchInit ==
    /\ PageInit
    /\ fnIn \in [query : SearchQueries, url : {Undefined, UrlA}, inNewTab : BOOLEAN]
    /\ fnOut = Sink
    /\ fnDone = FALSE

ApplySearch ==
    /\ ~fnDone
    /\ fnDone' = TRUE
    /\ fnOut' = performSearch(Sink, fnIn.query, fnIn.url, fnIn.inNewTab)
    /\ UNCHANGED <<fnIn, pageVars>>

SearchNext == ApplySearch

SpecSearch == SearchInit /\ [][SearchNext]_vars

(***************************************************************************)
(* The merge of fetchSuggestions on its own: every combination of a        *)
(* history answer, a bookmark answer and a remote answer of the sets below.*)
(***************************************************************************)
MaxMergeInput == 4

UrlD == Url(<<"d", "com">>, "/", "", "")

UrlE == Url(<<"e", "com">>, "/", "", "")

MergeRecords ==
    { Raw(1, UrlA, Text("A"), 1), Raw(2, UrlAx, Text("Ax"), 2),
      Raw(3, UrlB, Text("B"), 3), Raw(4, UrlC, Text("Foo"), 2),
      Raw(5, UrlD, Text(""), 1), Raw(6, UrlE, Text("E"), 3) }

\* Bookmark answers: none; one; one with the URL of a history record and
\* another title; a folder and a bookmark.
MergeBookmarkAnswers ==
    { <<>>,
      <<Raw(11, UrlAx, Text("Ax"), 0)>>,
      <<Raw(12, UrlB, Text("B bookmarked"), 0)>>,
      <<Raw(13, Undefined, Text("Folder"), 0), Raw(14, UrlE, Text(""), 0)>> }

FreshTexts ==
    <<Text("s1"), Text("s2"), Text("s3"), Text("s4"), Text("s5"), Text("s6"),
      Text("s7"), Text("s8"), Text("s9"), Text("s10"), Text("s11")>>

Completions(texts) == [i \in 1..Len(texts) |-> RemoteItem(texts[i], i = 1)]

\* Remote bodies: no completion; 8 or 11 new ones; two that differ in case
\* only; the title, the URL and the domain of history records.
MergeRemoteBodies ==
    { <<>>,
      Completions(SubSeq(FreshTexts, 1, 8)),
      Completions(FreshTexts),
      Completions(<<Text("Foo"), Text("foo"), Text("s1")>>),
      Completions(<<Text("A"), UrlB, HostText(<<"a", "com">>), UrlD>>) }

MergeRemoteResponses ==
    [kind : {"response"}, ok : {TRUE}, parses : {TRUE}, body : MergeRemoteBodies]
    \cup { [kind |-> "response", ok |-> FALSE, parses |-> FALSE, body |-> <<>>] }

MergeInit ==
    /\ PageInit
    /\ historyAvailable = TRUE
    /\ fnIn \in [historyItems : SeqsUpTo(MergeRecords, MaxMergeInput),
                 bookmarkItems : MergeBookmarkAnswers,
                 response : MergeRemoteResponses]
    /\ fnOut = NoOutput
    /\ fnDone = FALSE

ApplyMerge ==
    /\ ~fnDone
    /\ fnDone' = TRUE
    /\ LET h  == groupHistoryItems(fnIn.historyItems)
           g  == fetchGoogleSuggestions(fnIn.response)
           b1 == fetchBookmarkSuggestionsV1(fnIn.bookmarkItems)
           h1 == fetchHistorySuggestionsV1(fnIn.historyItems)
           g1 == fetchGoogleSuggestionsV1(fnIn.response)
       IN  fnOut' = [historySuggestions |-> h, googleSuggestions |-> g,
                     combined |-> MergeSuggestions(h, g),
                     bookmarkSuggestionsV1 |-> b1, historySuggestionsV1 |-> h1,
                     googleSuggestionsV1 |-> g1,
                     combinedV1 |-> MergeSuggestionsV1(b1, h1, g1)]
    /\ UNCHANGED <<fnIn, pageVars>>

MergeNext == ApplyMerge

SpecMerge == MergeInit /\ [][MergeNext]_vars

(***************************************************************************)
(* The second revision's delete button (lines 656-687): every row of type  *)
(* history has one, a group's included, and handleDeleteSuggestion deletes *)
(* the url of the entry it is given.  A group's url is there               *)
(* `https://${domain}` (line 504).                                         *)
(***************************************************************************)
GroupEntryV2(row) ==
    IF row.isGroup THEN [row EXCEPT !.url = Url(row.text.host, "", "", "")] ELSE row

\* The second revision's groupHistoryItems, on records of distinct urls.
groupHistoryItemsV2(historyItems) ==
    LET out == groupHistoryItems(historyItems)
    IN  [i \in 1..Len(out) |-> GroupEntryV2(out[i])]

\* The url as the history provider may compare it: with the empty path
\* written "/", or as it is.
ProviderUrl(u, canonical) ==
    IF canonical /\ u.kind = "url" /\ u.path = "" THEN [u EXCEPT !.path = "/"] ELSE u

\* The history after handleDeleteSuggestion(suggestion) of the second revision.
handleDeleteSuggestionV2(store, suggestion, canonical) ==
    IF suggestion.type = "history" /\ Truthy(suggestion.url) /\ historyAvailable
    THEN {r \in store : ProviderUrl(r.url, canonical) # ProviderUrl(suggestion.url, canonical)}
    ELSE store

DeleteV2Init ==
    /\ \E store \in SUBSET ViewHistory : PageStart(store)
    /\ historyAvailable = TRUE
    /\ fnIn = [NoInput EXCEPT !.historyItems = HistorySearch(historyStore, "", 100)]
    /\ fnOut = NoOutput
    /\ fnDone = FALSE

\* The rows of the second revision for the records of the history.
ApplyGroupV2 ==
    /\ ~fnDone
    /\ fnDone' = TRUE
    /\ fnOut' = [NoOutput EXCEPT !.historySuggestions = groupHistoryItemsV2(fnIn.historyItems)]
    /\ UNCHANGED <<fnIn, pageVars>>

\* A mousedown on the delete button of top-level row i, and the provider's
\* acknowledgement.
DeleteRowV2(i, canonical) ==
    /\ fnDone
    /\ viewLog.event = "none"
    /\ i \in 1..Len(fnOut.historySuggestions)
    /\ HasDeleteButtonV2(fnOut.historySuggestions[i])
    /\ historyStore' = handleDeleteSuggestionV2(historyStore, fnOut.historySuggestions[i], canonical)
    /\ viewLog' = [NoViewLog EXCEPT !.event = "deleted", !.row = i]
    /\ UNCHANGED <<inputValue, focused, userFocusedInput, historyAvailable,
                   timers, timeoutId, abortController, aborted, aggs, matchesList,
                   display, suggestionsActive, expanded, staleRenders, lastRender,
                   staleDrops, hung, deletes, burst, runs>>
    /\ UNCHANGED <<fnVars, navVars, sinkVars, windowVars>>

DeleteV2Next ==
    \/ ApplyGroupV2
    \/ \E i \in 1..Len(fnOut.historySuggestions), canonical \in BOOLEAN : DeleteRowV2(i, canonical)

SpecDeleteV2 == DeleteV2Init /\ [][DeleteV2Next]_vars

(***************************************************************************)
(* The initial view on its own: the page opened on a history of more than  *)
(* 10 domains, some of its records titled 'New Tab'.                       *)
(***************************************************************************)
\* Records of InitialPool that the history may lack.
MaxMissing == 2

SiteUrl(n, path) == Url(<<"site", n, "com">>, path, "", "")

\* Eleven sites visited once each, the new-tab page itself, and a second page
\* of the first site whose title is the placeholder's.
InitialPool ==
    { Raw(1, SiteUrl("1", "/"), Text("S1"), 1), Raw(2, SiteUrl("2", "/"), Text("S2"), 2),
      Raw(3, SiteUrl("3", "/"), Text("S3"), 3), Raw(4, SiteUrl("4", "/"), Text("S4"), 4),
      Raw(5, SiteUrl("5", "/"), Text("S5"), 5), Raw(6, SiteUrl("6", "/"), Text("S6"), 6),
      Raw(7, SiteUrl("7", "/"), Text("S7"), 7), Raw(8, SiteUrl("8", "/"), Text("S8"), 8),
      Raw(9, SiteUrl("9", "/"), Text("S9"), 9), Raw(10, SiteUrl("10", "/"), Text("S10"), 10),
      Raw(11, SiteUrl("11", "/p"), Text(""), 11),
      Raw(12, UrlNewTab, Text("New Tab"), 12),
      Raw(13, SiteUrl("1", "/x"), Text("New Tab"), 13),
      Raw(14, SiteUrl("2", "/x"), Text("S2x"), 14) }

InitialStores ==
    {InitialPool \ missing : missing \in {m \in SUBSET InitialPool : Cardinality(m) <= MaxMissing}}

InitialInit ==
    /\ \E store \in InitialStores : PageStart(store)
    /\ historyAvailable = TRUE
    /\ fnIn = NoInput
    /\ fnOut = NoOutput
    /\ fnDone = FALSE

InitialNext ==
    \/ Focus
    \/ \E g \in DOMAIN aggs : HistoryCallback(g)
    \/ Escape

SpecInitial == InitialInit /\ [][InitialNext]_vars

(***************************************************************************)
(* The keyboard navigator and the in-place delete and expand operations of *)
(* the view model.  src/script.js handles no key but Escape and keeps no   *)
(* selection: this part follows the specification's description of         *)
(* selectedIndex, originalTypedQuery, isInitialView and expandedGroupKeys. *)
(* The lists it renders are those the script's own operators give.         *)
(***************************************************************************)
\* The dedup key of an entry: its URL if it has one, else its lowercased text.
DedupKey(e) == IF Truthy(e.url) THEN e.url ELSE ToLowerCase(e.text)

RECURSIVE FlattenFrom(_, _, _)
\* The visible sequence from row i on, as positions <<row, item>>: <<i, 0>> is
\* top-level row i, <<i, k>> item k of group row i, visible when i is expanded.
FlattenFrom(list, open, i) ==
    IF i > Len(list) THEN <<>>
    ELSE <<<<i, 0>>>>
         \o (IF list[i].isGroup /\ i \in open
             THEN [k \in 1..Len(list[i].items) |-> <<i, k>>]
             ELSE <<>>)
         \o FlattenFrom(list, open, i + 1)

Flatten(list, open) == FlattenFrom(list, open, 1)

EntryAt(list, pos) == IF pos[2] = 0 THEN list[pos[1]] ELSE list[pos[1]].items[pos[2]]

\* The index (from 0) of position pos in the visible sequence.
IndexOf(list, open, pos) ==
    (CHOOSE n \in 1..Len(Flatten(list, open)) : Flatten(list, open)[n] = pos) - 1

RemoveAt(s, n) == [j \in 1..(Len(s) - 1) |-> IF j < n THEN s[j] ELSE s[j + 1]]

\* The expanded rows once row i is gone.
ShiftOpen(open, i) == {j \in open : j < i} \cup {j - 1 : j \in {x \in open : x > i}}

\* The list a render shows for the trimmed input q on the history store.
RenderedList(store, q) ==
    IF q = ""
    THEN InitialSuggestions(HistorySearch(store, "", 100))
    ELSE MergeSuggestions(groupHistoryItems(HistorySearch(store, q, 50)),
                          fetchGoogleSuggestions(OkResponse))

\* The navigator's state as one record.
Nav ==
    [matchesList |-> matchesList, expanded |-> expanded, display |-> display,
     historyStore |-> historyStore, selectedIndex |-> selectedIndex,
     originalTypedQuery |-> originalTypedQuery, moved |-> moved,
     isInitialView |-> isInitialView, inputText |-> inputText]

SetNav(nv) ==
    /\ matchesList' = nv.matchesList
    /\ expanded' = nv.expanded
    /\ display' = nv.display
    /\ historyStore' = nv.historyStore
    /\ selectedIndex' = nv.selectedIndex
    /\ originalTypedQuery' = nv.originalTypedQuery
    /\ moved' = nv.moved
    /\ isInitialView' = nv.isInitialView
    /\ inputText' = nv.inputText

\* Before the first movement of a session originalTypedQuery is the live input.
Snapshot(nv) ==
    IF nv.moved THEN nv
    ELSE [nv EXCEPT !.originalTypedQuery = nv.inputText, !.moved = TRUE]

\* Faulty variant: the input is overwritten in the initial view too.
SelectAlwaysWrites(nv, n) ==
    LET e == EntryAt(nv.matchesList, Flatten(nv.matchesList, nv.expanded)[n + 1])
    IN  [nv EXCEPT !.selectedIndex = n,
                   !.inputText = IF ~e.isGroup THEN e.text ELSE @]

\* The cursor goes to index n: outside the initial view a non-group item's
\* display text is written into the input.
Select(nv, n) ==
    LET e == EntryAt(nv.matchesList, Flatten(nv.matchesList, nv.expanded)[n + 1])
    IN  [nv EXCEPT !.selectedIndex = n,
                   !.inputText = IF ~e.isGroup /\ ~nv.isInitialView THEN e.text ELSE @]

\* The cursor leaves the list: originalTypedQuery is back in the input.
Deselect(nv) == [nv EXCEPT !.selectedIndex = -1, !.inputText = nv.originalTypedQuery]

\* Faulty variant: the cursor stops on the last item.
moveDownClamped(nv) ==
    LET last == Len(Flatten(nv.matchesList, nv.expanded)) - 1
        s    == Snapshot(nv)
    IN  Select(s, IF nv.selectedIndex >= last THEN last ELSE nv.selectedIndex + 1)

moveDown(nv) ==
    LET last == Len(Flatten(nv.matchesList, nv.expanded)) - 1
        s    == Snapshot(nv)
    IN  IF nv.selectedIndex >= last THEN Deselect(s)
        ELSE Select(s, nv.selectedIndex + 1)

\* Up from no selection wraps to the last item; up from the first deselects.
moveUp(nv) ==
    LET last == Len(Flatten(nv.matchesList, nv.expanded)) - 1
        s    == Snapshot(nv)
    IN  IF nv.selectedIndex = -1 THEN Select(s, last)
        ELSE IF nv.selectedIndex = 0 THEN Deselect(s)
        ELSE Select(s, nv.selectedIndex - 1)

\* Faulty variant: the cursor moves to the first item of the expanded group.
expandSelectedMovesIn(nv) ==
    LET pos == Flatten(nv.matchesList, nv.expanded)[nv.selectedIndex + 1]
    IN  [nv EXCEPT !.expanded = {pos[1]},
                   !.selectedIndex = IndexOf(nv.matchesList, {pos[1]}, <<pos[1], 1>>)]

\* Right arrow on a collapsed group: it becomes the one expanded group, and the
\* cursor stays on its header.
expandSelected(nv) ==
    LET pos == Flatten(nv.matchesList, nv.expanded)[nv.selectedIndex + 1]
    IN  [nv EXCEPT !.expanded = {pos[1]},
                   !.selectedIndex = IndexOf(nv.matchesList, {pos[1]}, pos)]

\* Faulty variant: the parent collapses and the cursor stays where it was.
collapseSelectedInPlace(nv) ==
    LET pos == Flatten(nv.matchesList, nv.expanded)[nv.selectedIndex + 1]
    IN  [nv EXCEPT !.expanded = @ \ {pos[1]}]

\* Left arrow inside an expanded group: the group collapses and the cursor
\* goes to its header.
collapseSelected(nv) ==
    LET pos  == Flatten(nv.matchesList, nv.expanded)[nv.selectedIndex + 1]
        open == nv.expanded \ {pos[1]}
    IN  [nv EXCEPT !.expanded = open,
                   !.selectedIndex = IndexOf(nv.matchesList, open, <<pos[1], 0>>)]

\* The deletion-repair rule: an empty list closes the panel; else the cursor
\* goes to min(deletedIndex, newLength - 1) and, outside the initial view, that
\* row's display text is written into the input.
Repair(nv, deletedIndex) ==
    LET visible == Flatten(nv.matchesList, nv.expanded)
        n       == Min(deletedIndex, Len(visible) - 1)
    IN  IF visible = <<>>
        THEN [nv EXCEPT !.matchesList = <<>>, !.expanded = {}, !.display = "none",
                        !.selectedIndex = -1, !.moved = FALSE]
        ELSE [nv EXCEPT !.selectedIndex = n,
                        !.inputText = IF nv.isInitialView THEN @
                                      ELSE EntryAt(nv.matchesList, visible[n + 1]).text]

\* deleteSingle on the entry at pos: delete-by-url for a plain history item,
\* then the row leaves the tree; a group left with one item becomes that item.
deleteSingle(nv, pos) ==
    LET list  == nv.matchesList
        i     == pos[1]
        e     == EntryAt(list, pos)
        store == IF e.type = "history" /\ ~e.isGroup
                 THEN DeleteUrl(nv.historyStore, e.url) ELSE nv.historyStore
        items == RemoveAt(list[i].items, pos[2])
    IN  IF pos[2] = 0
        THEN [nv EXCEPT !.historyStore = store, !.matchesList = RemoveAt(list, i),
                        !.expanded = ShiftOpen(nv.expanded, i)]
        ELSE IF Len(items) = 0
        THEN [nv EXCEPT !.historyStore = store, !.matchesList = RemoveAt(list, i),
                        !.expanded = ShiftOpen(nv.expanded, i)]
        ELSE IF Len(items) = 1
        THEN [nv EXCEPT !.historyStore = store,
                        !.matchesList = [list EXCEPT ![i] = items[1]],
                        !.expanded = @ \ {i}]
        ELSE [nv EXCEPT !.historyStore = store,
                        !.matchesList = [list EXCEPT ![i].items = items]]

RECURSIVE DeleteUrls(_, _, _)
DeleteUrls(store, items, k) ==
    IF k > Len(items) THEN store
    ELSE DeleteUrls(DeleteUrl(store, items[k].url), items, k + 1)

\* deleteGroup on group row i: delete-by-url for every item, then the row goes.
deleteGroup(nv, i) ==
    [nv EXCEPT !.historyStore = DeleteUrls(nv.historyStore, nv.matchesList[i].items, 1),
               !.matchesList = RemoveAt(nv.matchesList, i),
               !.expanded = ShiftOpen(nv.expanded, i)]

\* Delete key on a history-typed row.
deleteSelected(nv) ==
    LET pos == Flatten(nv.matchesList, nv.expanded)[nv.selectedIndex + 1]
    IN  IF EntryAt(nv.matchesList, pos).isGroup
        THEN Repair(deleteGroup(nv, pos[1]), nv.selectedIndex)
        ELSE Repair(deleteSingle(nv, pos), nv.selectedIndex)

NavLog(event) ==
    viewLog' = [event |-> event, row |-> selectedIndex, open |-> expanded,
                openTexts |-> {matchesList[i].text : i \in expanded},
                display |-> display]

NavFrame ==
    UNCHANGED <<inputValue, focused, userFocusedInput, historyAvailable, timers,
                timeoutId, abortController, aborted, aggs, suggestionsActive,
                staleRenders, lastRender, staleDrops, hung, deletes, burst, runs,
                fnVars, sinkVars, windowVars>>

\* The user types q and the list for it is rendered: a new session, no
\* selection; a group whose dedup key was expanded is expanded again.
NavRender(q) ==
    LET list == RenderedList(historyStore, q)
        keys == {DedupKey(matchesList[i]) : i \in expanded}
    IN  /\ SetNav([Nav EXCEPT
                !.matchesList = list,
                !.display = IF list = <<>> THEN "none" ELSE "block",
                !.expanded = {j \in 1..Len(list) : list[j].isGroup /\ DedupKey(list[j]) \in keys},
                !.selectedIndex = -1, !.moved = FALSE,
                !.isInitialView = (q = ""),
                !.inputText = Text(q)])
        /\ typedText' = Text(q)
        /\ NavLog("render")
        /\ NavFrame

MoveDown ==
    /\ display = "block"
    /\ SetNav(moveDown(Nav))
    /\ NavLog("moveDown")
    /\ UNCHANGED typedText
    /\ NavFrame

MoveUp ==
    /\ display = "block"
    /\ SetNav(moveUp(Nav))
    /\ NavLog("moveUp")
    /\ UNCHANGED typedText
    /\ NavFrame

SelectedPos == Flatten(matchesList, expanded)[selectedIndex + 1]

ExpandSelected ==
    /\ display = "block" /\ selectedIndex >= 0
    /\ SelectedPos[2] = 0
    /\ matchesList[SelectedPos[1]].isGroup
    /\ SelectedPos[1] \notin expanded
    /\ SetNav(expandSelected(Nav))
    /\ NavLog("expand")
    /\ UNCHANGED typedText
    /\ NavFrame

CollapseSelected ==
    /\ display = "block" /\ selectedIndex >= 0
    /\ SelectedPos[2] > 0
    /\ SetNav(collapseSelected(Nav))
    /\ NavLog("collapse")
    /\ UNCHANGED typedText
    /\ NavFrame

DeleteSelected ==
    /\ display = "block" /\ selectedIndex >= 0
    /\ EntryAt(matchesList, SelectedPos).type = "history"
    /\ SetNav(deleteSelected(Nav))
    /\ NavLog("delete")
    /\ UNCHANGED typedText
    /\ NavFrame

NavInit ==
    /\ PageStart(ViewHistory)
    /\ historyAvailable = TRUE
    /\ fnIn = NoInput
    /\ fnOut = NoOutput
    /\ fnDone = FALSE

NavNext ==
    \/ \E q \in {"", "b"} : NavRender(q)
    \/ MoveDown
    \/ MoveUp
    \/ ExpandSelected
    \/ CollapseSelected
    \/ DeleteSelected

SpecNav == NavInit /\ [][NavNext]_vars

(***************************************************************************)
(* Properties.                                                             *)
(***************************************************************************)
NoSharedKey(list) ==
    \A i, j \in 1..Len(list) : i < j => DedupKey(list[i]) # DedupKey(list[j])

\* C1: a fetchSuggestions call that was still waiting for a provider when a
\* later aggregation started is never passed to displaySuggestions, whatever
\* the order in which the responses arrive.
C1_StaleFetchNeverRendered == "fetch" \notin staleRenders

\* C1 happens: a superseded fetchSuggestions call reached its check and
\* returned, and the current call's merge is what was rendered last.
C1_Witness ==
    /\ staleDrops
    /\ lastRender.kind = "fetch"
    /\ lastRender.gen = abortController

\* C2: no aggregation of any kind, showInitialSuggestions included, is
\* rendered once a later aggregation has started.
C2_NoStaleRender == staleRenders = {}

\* C3: while the trimmed input is empty no debounce timer is pending: the
\* input event that empties the input cancels the timer of the earlier
\* keystroke.
C3_EmptyInputCancelsTimer == Trim(inputValue) = "" => timers = {}

\* C4: in a run of debounced calls, each made before the previous timer
\* fires, the wrapped function does not run while a timer is pending, and once
\* none is pending it has run exactly once, with the arguments of the last
\* call.
C4_DebounceRunsLastOnce ==
    /\ timers # {} => runs = <<>>
    /\ timers = {} /\ burst.calls > 0 => runs = <<burst.args>>

\* C4 happens: a run of at least two debounced calls has ended with one
\* invocation.
C4_Witness == timers = {} /\ burst.calls = 2 /\ runs = <<burst.args>>

\* C5: the list fetchSuggestions passes to displaySuggestions has at most 10
\* entries, and no two of them have the same dedup key.
C5_MergedCappedAndUnique ==
    fnDone => Len(fnOut.combined) <= 10 /\ NoSharedKey(fnOut.combined)

SourceRank(e) ==
    CASE e.type = "bookmark" -> 1
      [] e.type = "history"  -> 2
      [] e.type = "search"   -> 3

InPriorityOrder(list) ==
    \A i, j \in 1..Len(list) : i < j => SourceRank(list[i]) <= SourceRank(list[j])

NoCrossSourceDuplicate(list) ==
    \A i, j \in 1..Len(list) :
        list[i].type # list[j].type => DedupKey(list[i]) # DedupKey(list[j])

\* C6: in every merged list bookmark entries come before history entries,
\* which come before remote entries; and of two entries from different sources
\* with the same dedup key only the higher-priority one is in the list.
C6_PriorityMerge ==
    fnDone => /\ InPriorityOrder(fnOut.combined)
              /\ InPriorityOrder(fnOut.combinedV1)
              /\ NoCrossSourceDuplicate(fnOut.combined)
              /\ NoCrossSourceDuplicate(fnOut.combinedV1)

\* C7: the merged list of a non-empty query has at most 3 history entries.
C7_AtMostThreeHistory ==
    fnDone => Cardinality({i \in 1..Len(fnOut.combined) :
                              fnOut.combined[i].type = "history"}) <= 3

\* The URLs of the input that parse, and their domains.
InputUrls == {u \in {fnIn.historyItems[i].url : i \in 1..Len(fnIn.historyItems)} :
                 Truthy(u) /\ UrlParses(u)}

InputUrlsOf(d) == {u \in InputUrls : DomainOf(u) = d}

\* C8: the output of groupHistoryItems has no group with fewer than 2 items
\* and no two top-level entries with the same URL; a domain with 2 or more
\* distinct URLs in the input yields one group and no plain entry, a domain
\* with exactly one URL yields one plain entry and no group.
C8_GroupsHaveTwoItems ==
    fnDone =>
        LET out == fnOut.historySuggestions
            GroupsOf(d) == {i \in 1..Len(out) : out[i].isGroup /\ out[i].text = HostText(d)}
            PlainOf(d)  == {i \in 1..Len(out) : ~out[i].isGroup /\ out[i].url \in InputUrlsOf(d)}
        IN  /\ \A i \in 1..Len(out) : out[i].isGroup => Len(out[i].items) >= 2
            /\ \A i, j \in 1..Len(out) : i < j => out[i].url # out[j].url
            /\ \A d \in {DomainOf(u) : u \in InputUrls} :
                  IF Cardinality(InputUrlsOf(d)) >= 2
                  THEN Cardinality(GroupsOf(d)) = 1 /\ PlainOf(d) = {}
                  ELSE Cardinality(PlainOf(d)) = 1 /\ GroupsOf(d) = {}
            /\ Len(out) = Cardinality({DomainOf(u) : u \in InputUrls})

\* C8 happens: an input with a repeated URL has given a group and a plain entry.
C8_Witness ==
    /\ fnDone
    /\ \E i, j \in 1..Len(fnIn.historyItems) :
          i < j /\ fnIn.historyItems[i].url = fnIn.historyItems[j].url
    /\ \E i, j \in 1..Len(fnOut.historySuggestions) :
          fnOut.historySuggestions[i].isGroup /\ ~fnOut.historySuggestions[j].isGroup

\* A URL whose path is "/" (an empty raw path is "/") with no query or fragment.
RootUrl(u) == u.kind = "url" /\ u.path \in {"", "/"} /\ u.search = "" /\ u.hash = ""

ScenarioInput == <<Raw(1, UrlA, Text("A"), 1), Raw(2, UrlAx, Text("Ax"), 2)>>

\* C9: the url of a group is the URL of a member whose path is "/" with no
\* query or fragment when the group has one, and else the URL of its most
\* recently visited member; records https://a.com/ (older) and https://a.com/x
\* (newer) give one group a.com with url https://a.com/ and items [Ax, A].
C9_GroupUrl ==
    fnDone =>
        LET out == fnOut.historySuggestions IN
        /\ \A i \in 1..Len(out) : out[i].isGroup =>
              LET items == out[i].items
                  roots == {k \in 1..Len(items) : RootUrl(items[k].url)}
              IN  IF roots # {}
                  THEN \E k \in roots : out[i].url = items[k].url
                  ELSE \E k \in 1..Len(items) :
                          /\ out[i].url = items[k].url
                          /\ \A m \in 1..Len(items) :
                                items[k].lastVisitTime >= items[m].lastVisitTime
        /\ fnIn.historyItems = ScenarioInput =>
              /\ Len(out) = 1
              /\ out[1].isGroup
              /\ out[1].text = HostText(<<"a", "com">>)
              /\ out[1].url = UrlA
              /\ [k \in 1..Len(out[1].items) |-> out[1].items[k].text]
                    = <<Text("Ax"), Text("A")>>

\* C9 happens: the scenario's records have been grouped.
C9_Witness == fnDone /\ fnIn.historyItems = ScenarioInput

\* C10: a remote fetch that fails, answers with a non-OK status or a body that
\* does not parse, or is aborted, contributes no entry to the merge that is
\* rendered, and no fetchSuggestions call is left waiting for ever by a
\* failing history provider.
C10_FailedProviderContributesNothing ==
    /\ lastRender.kind = "fetch"
       /\ (lastRender.googKind # "response" \/ ~lastRender.googOk \/ ~lastRender.googParses)
          => lastRender.googleSuggestions = <<>>
    /\ ~hung

\* The entries of a list that stand for one history record or completion: the
\* plain top-level entries and the items of the groups.
Leaves(list) ==
    {list[i] : i \in {k \in 1..Len(list) : ~list[k].isGroup}}
    \cup UNION {{list[i].items[k] : k \in 1..Len(list[i].items)} :
                  i \in {k \in 1..Len(list) : list[k].isGroup}}

C12_OneGroupExpanded ==
    /\ Cardinality(expanded) <= 1
    /\ \A i \in expanded : i \in 1..Len(matchesList) /\ matchesList[i].isGroup
    /\ viewLog.event = "toggle" =>
          expanded = IF viewLog.row \in viewLog.open THEN {} ELSE {viewLog.row}

\* C12 happens: with one group expanded, the arrow of another group was
\* pressed, and that other group is now the expanded one.
C12_Witness ==
    /\ viewLog.event = "toggle"
    /\ viewLog.open # {}
    /\ viewLog.row \notin viewLog.open
    /\ expanded = {viewLog.row}

\* C13: when displaySuggestions renders a list, every group that was expanded
\* just before and whose dedup key is the key of a group of the new list is
\* expanded after it, and every expanded row after it is such a group.
C13_RenderRestoresExpansion ==
    [][ lastRender' # lastRender =>
          /\ \A i \in expanded : \A j \in 1..Len(matchesList') :
                matchesList'[j].isGroup /\ DedupKey(matchesList'[j]) = DedupKey(matchesList[i])
                    => j \in expanded'
          /\ \A j \in expanded' :
                /\ j \in 1..Len(matchesList') /\ matchesList'[j].isGroup
                /\ \E i \in expanded : DedupKey(matchesList'[j]) = DedupKey(matchesList[i])
      ]_vars

\* C14: once clearSuggestions has run the panel has no row, is hidden and no
\* row is expanded, whatever was expanded before; and the render that opens the
\* panel again shows every group collapsed.
C14_ClearResetsExpansion ==
    /\ viewLog.event = "clear" =>
          /\ matchesList = <<>>
          /\ display = "none"
          /\ ~suggestionsActive
          /\ expanded = {}
    /\ display = "none" => matchesList = <<>> /\ expanded = {}
    /\ viewLog.event = "render" /\ viewLog.display = "none" => expanded = {}

\* C14 happens: clearSuggestions has closed a panel that had a group expanded.
C14_Witness ==
    /\ viewLog.event = "clear"
    /\ viewLog.open # {}
    /\ viewLog.display = "block"
    /\ display = "none"

\* The urls of the plain history rows a mousedown can reach in the panel.
ShownPlainHistoryUrls ==
    {RowAt(i, k).url : <<i, k>> \in
        {ik \in (1..Len(matchesList)) \X (0..MaxItems) :
            /\ RowShown(ik[1], ik[2])
            /\ RowAt(ik[1], ik[2]).type = "history"
            /\ ~RowAt(ik[1], ik[2]).isGroup}}

VisibleRows(list, open) ==
    Len(list) + Cardinality({ik \in (1..Len(list)) \X (1..MaxItems) :
                                ik[1] \in open /\ ik[2] \in 1..Len(list[ik[1]].items)})

StoreUrls(store) == {r.url : r \in store}

\* Item k of the expanded two-item group row i is the one record of the panel
\* that has left the history, and the panel is rendered anew, for the same
\* view, by the current aggregation.
RenderAfterItemDelete(i, k) ==
    /\ lastRender' # lastRender
    /\ lastRender'.gen = abortController
    /\ lastRender'.kind = lastRender.kind /\ lastRender'.query = lastRender.query
    /\ display = "block"
    /\ i \in expanded /\ i \in 1..Len(matchesList)
    /\ matchesList[i].isGroup /\ Len(matchesList[i].items) = 2
    /\ k \in 1..2
    /\ matchesList[i].items[k].url \notin StoreUrls(historyStore)
    /\ \A e \in Leaves(matchesList) \ {matchesList[i].items[k]} :
          e.type = "history" => e.url \in StoreUrls(historyStore)

\* The render shows the remaining item of group row i as a top-level plain
\* entry, no group of that domain, and the other rows as they were.
SurvivorPromoted(i, k) ==
    LET group == matchesList[i]
        survivor == group.items[3 - k]
        Rows(list) == {list[j] : j \in 1..Len(list)}
    IN  /\ survivor \in Rows(matchesList')
        /\ \A row \in Rows(matchesList') : row.isGroup => row.text # group.text
        /\ Rows(matchesList') \ {survivor} = Rows(matchesList) \ {group}
        /\ Len(matchesList') = Len(matchesList)

C17_GroupDeleteRemovesAll ==
    fnDone /\ viewLog.event = "deleted" /\ viewLog.row \in 1..Len(fnOut.historySuggestions) =>
        LET row == fnOut.historySuggestions[viewLog.row]
        IN  row.isGroup =>
                \A k \in 1..Len(row.items) : row.items[k].url \notin StoreUrls(historyStore)

\* The index of the last visible row.
LastIndex == Len(Flatten(matchesList, expanded)) - 1

\* C18: when ArrowDown is pressed with the cursor on the last visible item,
\* the selection becomes none (selectedIndex = -1) and the input shows the
\* text the user had typed before the first movement.
C18_ArrowDownAtLastDeselects ==
    viewLog.event = "moveDown" /\ viewLog.row = LastIndex =>
        /\ selectedIndex = -1
        /\ inputText = typedText

\* C18 happens: outside the initial view the cursor was on the last item, whose
\* text had replaced the typed text in the input, and ArrowDown was pressed.
C18_Witness ==
    /\ viewLog.event = "moveDown"
    /\ viewLog.row = LastIndex
    /\ ~isInitialView
    /\ selectedIndex = -1
    /\ ~EntryAt(matchesList, Flatten(matchesList, expanded)[LastIndex + 1]).isGroup
    /\ EntryAt(matchesList, Flatten(matchesList, expanded)[LastIndex + 1]).text # typedText

C21_CollapseToHeaderExpandInPlace ==
    [][/\ viewLog'.event = "collapse" =>
            /\ SelectedPos[1] \notin expanded'
            /\ matchesList' = matchesList
            /\ selectedIndex' >= 0
            /\ Flatten(matchesList', expanded')[selectedIndex' + 1] = <<SelectedPos[1], 0>>
       /\ viewLog'.event = "expand" =>
            /\ SelectedPos[1] \in expanded'
            /\ matchesList' = matchesList
            /\ selectedIndex' >= 0
            /\ Flatten(matchesList', expanded')[selectedIndex' + 1] = SelectedPos]_vars

\* A group has been expanded from its header, the cursor moved into it, and the
\* left arrow has put the cursor back on the header of the collapsed group.
C21_Witness ==
    /\ viewLog.event = "collapse"
    /\ viewLog.open # {}
    /\ viewLog.row > selectedIndex
    /\ selectedIndex >= 0
    /\ matchesList[SelectedPos[1]].isGroup
    /\ SelectedPos[1] \notin expanded

\* The row at index d of the visible sequence is a plain history row, the one
\* record of the panel that has left the history, and the panel is rendered
\* anew, for the same view, by the current aggregation.
RenderAfterRowDelete(d) ==
    LET visible == Flatten(matchesList, expanded)
        gone    == EntryAt(matchesList, visible[d + 1])
    IN  /\ lastRender' # lastRender
        /\ lastRender'.gen = abortController
        /\ lastRender'.kind = lastRender.kind /\ lastRender'.query = lastRender.query
        /\ display = "block"
        /\ gone.type = "history" /\ ~gone.isGroup
        /\ gone.url \notin StoreUrls(historyStore)
        /\ \A e \in Leaves(matchesList) \ {gone} :
              e.type = "history" => e.url \in StoreUrls(historyStore)

\* C22: after a row removal, an empty list closes the panel; otherwise, outside
\* the initial view, the input shows the display text of the row now at index
\* min(deletedIndex, newLength - 1) of the visible sequence.
C22_DeletionRepair ==
    [][ \A d \in 0..(Len(Flatten(matchesList, expanded)) - 1) : RenderAfterRowDelete(d) =>
          LET visible == Flatten(matchesList', expanded')
              n       == Min(d, Len(visible) - 1)
          IN  IF visible = <<>> THEN display' = "none"
              ELSE lastRender'.kind = "fetch" =>
                      Text(inputValue') = EntryAt(matchesList', visible[n + 1]).text
      ]_vars

\* The targets the last commit navigated to: the view's new location and the
\* urls of the tabs it created.
Navigated ==
    ({location} \ {lastCommit.location})
        \cup {createdTabs[n].url : n \in (Len(lastCommit.createdTabs) + 1)..Len(createdTabs)}

\* The target performSearch resolves from the text t of the page model.
ResolvedFrom(t) == TextTarget(TargetUrl(TrimChars(CharsOf(t))))

\* C23: a commit of a suggestion row navigates to the row's url, or, when the
\* row has none, to the target resolved from the row's text, and to nothing
\* else, so never to a different target resolved from the input; a submit
\* navigates to the target resolved from the raw input text.
C23_CommitTarget ==
    /\ lastCommit.kind = "item" =>
          /\ Navigated = {IF Truthy(lastCommit.url) THEN UrlTarget(lastCommit.url)
                          ELSE ResolvedFrom(lastCommit.text.txt)}
          /\ \A t \in Navigated :
                t = ResolvedFrom(lastCommit.input) =>
                    ~Truthy(lastCommit.url) /\ t = ResolvedFrom(lastCommit.text.txt)
    /\ lastCommit.kind = "submit" /\ TrimChars(CharsOf(lastCommit.input)) # <<>> =>
          Navigated = {ResolvedFrom(lastCommit.input)}

\* C23 happens: with "b" typed, a remote completion, which has no url, was
\* committed and the view went to the search for its text, not for "b".
C23_Witness ==
    /\ lastCommit.kind = "item"
    /\ lastCommit.input = "b"
    /\ ~Truthy(lastCommit.url)
    /\ location = ResolvedFrom("foo")
    /\ location # ResolvedFrom("b")

\* The last commit opened its target in one new background tab and left the
\* view where it was.
OpenedInBackground ==
    /\ location = lastCommit.location
    /\ Len(createdTabs) = Len(lastCommit.createdTabs) + 1
    /\ SubSeq(createdTabs, 1, Len(lastCommit.createdTabs)) = lastCommit.createdTabs
    /\ ~createdTabs[Len(createdTabs)].active

\* The last commit replaced the view's location and created no tab.
ReplacedView ==
    /\ location # lastCommit.location
    /\ createdTabs = lastCommit.createdTabs

\* C24 as stated: a commit of a row with shift, ctrl or cmd held, or with the
\* middle button, opens the target in a new background tab and leaves the
\* view's location unchanged; any other commit of a row replaces the view and
\* creates no tab.
C24_BackgroundOnAnyModifier ==
    lastCommit.kind = "item" =>
        IF lastCommit.button = 1 \/ lastCommit.shiftKey \/ lastCommit.ctrlKey \/ lastCommit.metaKey
        THEN OpenedInBackground
        ELSE ReplacedView

\* C24 as amended: a commit of a row with ctrl or cmd held, or with the middle
\* button, opens the target in a new background tab and leaves the view's
\* location unchanged; any other commit of a row, shift held or not, and every
\* submit of a non-empty input, whatever keys are held, replaces the view and
\* creates no tab; a submit of an empty input does neither.
C24_BackgroundOnCtrlMetaMiddle ==
    /\ lastCommit.kind = "item" =>
          IF lastCommit.button = 1 \/ lastCommit.ctrlKey \/ lastCommit.metaKey
          THEN OpenedInBackground
          ELSE ReplacedView
    /\ lastCommit.kind = "submit" =>
          IF TrimChars(CharsOf(lastCommit.input)) # <<>>
          THEN ReplacedView
          ELSE location = lastCommit.location /\ createdTabs = lastCommit.createdTabs

\* C24 happens: a row was committed with the left button and shift alone held,
\* and the view was replaced.
C24_Witness ==
    /\ lastCommit.kind = "item"
    /\ lastCommit.button = 0
    /\ lastCommit.shiftKey /\ ~lastCommit.ctrlKey /\ ~lastCommit.metaKey
    /\ ReplacedView

\* The targets the applied performSearch navigated to.
FnTargets ==
    ({fnOut.location} \ {ThisPage})
        \cup {fnOut.createdTabs[n].url : n \in 1..Len(fnOut.createdTabs)}

Letters == {"a", "b", "c", "e", "f", "h", "i", "m", "n", "o", "p", "r", "s", "t", "z"}

\* q starts with a scheme: letters followed by '://'.
HasSchemePrefix(q) ==
    \E n \in 1..(Len(q) - 3) :
        /\ \A i \in 1..n : q[i] \in Letters
        /\ SubSeq(q, n + 1, n + 3) = <<":", "/", "/">>

NoWhiteSpace(q) == \A i \in 1..Len(q) : q[i] \notin WhiteSpace

\* C25: for a trimmed input without a scheme prefix that contains a "." and no
\* whitespace, the navigation target is "https://" followed by the input; for
\* "openai.com" it is "https://openai.com".
C25_DotInputGetsHttps ==
    fnDone /\ ~Truthy(fnIn.url) =>
        LET q == TrimChars(fnIn.query)
        IN  q # <<>> /\ ~HasSchemePrefix(q) /\ Includes(q, ".") /\ NoWhiteSpace(q) =>
                FnTargets = {TextTarget(HttpsScheme \o q)}

\* C26: an input that already has a scheme prefix is navigated to unchanged,
\* whether or not it contains a "."; and an input without one is given the
\* "https://" scheme, that is classified as a URL through the "." rule, only
\* when it has no whitespace of any kind.
C26_SchemeOrDotNoWhitespace ==
    fnDone /\ ~Truthy(fnIn.url) =>
        LET q == TrimChars(fnIn.query)
        IN  /\ q # <<>> /\ HasSchemePrefix(q) => FnTargets = {TextTarget(q)}
            /\ q # <<>> /\ ~HasSchemePrefix(q) /\ FnTargets = {TextTarget(HttpsScheme \o q)} =>
                  Includes(q, ".") /\ NoWhiteSpace(q)

\* The characters encodeURIComponent leaves as they are, of those the model uses.
Unreserved == Letters \cup {"."}

\* The character an escape of encodeURIComponent stands for.
DecodeByte(hi, lo) ==
    CASE <<hi, lo>> = <<"2", "0">> -> " "
      [] <<hi, lo>> = <<"0", "9">> -> "\t"
      [] <<hi, lo>> = <<"2", "5">> -> "%"
      [] <<hi, lo>> = <<"2", "F">> -> "/"
      [] <<hi, lo>> = <<"3", "A">> -> ":"
      [] OTHER -> "?"

\* s is made of unreserved characters and three-character escapes.
RECURSIVE WellEncoded(_)
WellEncoded(s) ==
    IF s = <<>> THEN TRUE
    ELSE IF Head(s) = "%"
         THEN Len(s) >= 3 /\ DecodeByte(s[2], s[3]) # "?" /\ WellEncoded(SubSeq(s, 4, Len(s)))
         ELSE Head(s) \in Unreserved /\ WellEncoded(Tail(s))

\* decodeURIComponent of a well-encoded s.
RECURSIVE PercentDecode(_)
PercentDecode(s) ==
    IF s = <<>> THEN <<>>
    ELSE IF Head(s) = "%"
         THEN <<DecodeByte(s[2], s[3])>> \o PercentDecode(SubSeq(s, 4, Len(s)))
         ELSE <<Head(s)>> \o PercentDecode(Tail(s))

\* 'best%20pizza%20near%20me'
BestPizzaEncoded ==
    <<"b", "e", "s", "t", "%", "2", "0", "p", "i", "z", "z", "a", "%", "2", "0",
      "n", "e", "a", "r", "%", "2", "0", "m", "e">>

\* C27: a trimmed non-empty input that performSearch does not classify as a
\* URL is navigated to as "https://www.google.com/search?q=" followed by the
\* percent-encoded input: unreserved characters and escapes that decode to the
\* input; "best pizza near me" gives "...search?q=best%20pizza%20near%20me".
C27_SearchTargetEncoded ==
    fnDone /\ ~Truthy(fnIn.url) =>
        LET q == TrimChars(fnIn.query)
        IN  q # <<>> /\ ~(Includes(q, ".") /\ ~Includes(q, " ")) =>
                /\ Cardinality(FnTargets) = 1
                /\ \A t \in FnTargets :
                      LET phrase == SubSeq(t.chars, Len(GoogleSearchUrl) + 1, Len(t.chars))
                      IN  /\ t.from = "text"
                          /\ StartsWith(t.chars, GoogleSearchUrl)
                          /\ WellEncoded(phrase)
                          /\ PercentDecode(phrase) = q
                          /\ q = BestPizzaNearMe => phrase = BestPizzaEncoded

\* C27 happens: "best pizza near me" was submitted and the view went to
\* https://www.google.com/search?q=best%20pizza%20near%20me.
C27_Witness ==
    /\ fnDone
    /\ fnIn.query = BestPizzaNearMe
    /\ ~Truthy(fnIn.url)
    /\ fnOut.location = TextTarget(GoogleSearchUrl \o BestPizzaEncoded)

\* C28: a render of the list the panel already shows, whatever is expanded,
\* leaves the visible flattened sequence as it was.
C28_RerenderSameRows ==
    [][ lastRender' # lastRender /\ display = "block" /\ matchesList' = matchesList =>
          Flatten(matchesList', expanded') = Flatten(matchesList, expanded)
      ]_vars

\* The place in the input of the first record with url u.
FirstIndexOfUrl(u) ==
    CHOOSE n \in 1..Len(fnIn.historyItems) :
        /\ fnIn.historyItems[n].url = u
        /\ \A m \in 1..(n - 1) : fnIn.historyItems[m].url # u

\* The place in the input of the first record of the domain of entry e.
FirstIndexOfDomain(e) ==
    CHOOSE n \in 1..Len(fnIn.historyItems) :
        LET InDomain(m) == /\ UrlParses(fnIn.historyItems[m].url)
                           /\ DomainOf(fnIn.historyItems[m].url) = DomainOf(e.url)
        IN  InDomain(n) /\ \A m \in 1..(n - 1) : ~InDomain(m)

\* The time an entry is ranked by: a group's latestVisitTime, a single's
\* lastVisitTime.
RankTime(e) == IF e.isGroup THEN e.latestVisitTime ELSE e.lastVisitTime

\* C29: the output of groupHistoryItems is sorted by effective time
\* descending; the items of a group are sorted by lastVisitTime descending and
\* its latestVisitTime is its first item's time; top-level entries of equal
\* time are in the order in which their domains first appear in the input, and
\* items of equal time in the order in which their urls first appear.
C29_SortedStable ==
    fnDone =>
        LET out == fnOut.historySuggestions
        IN  /\ \A i, j \in 1..Len(out) : i < j =>
                  /\ RankTime(out[i]) >= RankTime(out[j])
                  /\ RankTime(out[i]) = RankTime(out[j]) =>
                        FirstIndexOfDomain(out[i]) < FirstIndexOfDomain(out[j])
            /\ \A i \in 1..Len(out) : out[i].isGroup =>
                  LET items == out[i].items
                  IN  /\ out[i].latestVisitTime = items[1].lastVisitTime
                      /\ \A a, b \in 1..Len(items) : a < b =>
                            /\ items[a].lastVisitTime >= items[b].lastVisitTime
                            /\ items[a].lastVisitTime = items[b].lastVisitTime =>
                                  FirstIndexOfUrl(items[a].url) < FirstIndexOfUrl(items[b].url)

\* C29 happens: a group whose most recent record comes last in the input ties
\* with a single of another domain that comes before that record, and the
\* group, whose domain appeared first, is before it; an older single is last.
C29_Witness ==
    /\ fnDone
    /\ fnIn.historyItems =
          <<Raw(1, UrlA, Text("A"), 1), Raw(5, UrlB, Text("B"), 3),
            Raw(7, UrlC, Text("A"), 1), Raw(4, UrlAq, Text("Aq"), 3)>>
    /\ Len(fnOut.historySuggestions) = 3
    /\ fnOut.historySuggestions[1].isGroup
    /\ fnOut.historySuggestions[2].url = UrlB
    /\ fnOut.historySuggestions[3].url = UrlC

\* The places of the output that hold url u: singles and items of groups.
PlacesOfUrl(out, u) ==
    {ik \in (1..Len(out)) \X (0..MaxGroupInput) :
        \/ ik[2] = 0 /\ ~out[ik[1]].isGroup /\ out[ik[1]].url = u
        \/ /\ ik[2] \in 1..Len(out[ik[1]].items)
           /\ out[ik[1]].items[ik[2]].url = u}

\* C30: every distinct valid URL of the input is in the output exactly once,
\* as a single entry or as an item of one group, and that entry is made from
\* the first record of the input with that URL; no entry, group or item of the
\* output has a URL that is not in the input.
C30_FirstRecordOfEveryUrl ==
    fnDone =>
        LET out == fnOut.historySuggestions
        IN  /\ \A u \in InputUrls :
                  /\ Cardinality(PlacesOfUrl(out, u)) = 1
                  /\ \A ik \in PlacesOfUrl(out, u) :
                        EntryAt(out, ik) = MappedItem(fnIn.historyItems[FirstIndexOfUrl(u)])
            /\ \A i \in 1..Len(out) :
                  /\ out[i].url \in InputUrls
                  /\ \A k \in 1..Len(out[i].items) : out[i].items[k].url \in InputUrls

\* C30 happens: the input has the url of B twice, first as record 6 and then
\* as record 5, and the output has record 6 alone.
C30_Witness ==
    /\ fnDone
    /\ fnIn.historyItems = <<Raw(6, UrlB, Text("B2"), 1), Raw(5, UrlB, Text("B"), 3)>>
    /\ fnOut.historySuggestions = <<MappedItem(Raw(6, UrlB, Text("B2"), 1))>>

\* The input without its n-th record.
InputWithout(n) == RemoveAt(fnIn.historyItems, n)

\* C31: a record whose URL is empty or does not parse is dropped, and the
\* output is that of the input without the record; the records of www.a.com
\* and of a.com are in one partition, so when both are in the input they are
\* items of one group and no entry of the output is of one of them alone.
C31_InvalidDroppedWwwStripped ==
    fnDone =>
        LET in  == fnIn.historyItems
            out == fnOut.historySuggestions
        IN  /\ \A n \in 1..Len(in) :
                  ~Truthy(in[n].url) \/ ~UrlParses(in[n].url) =>
                      /\ out = groupHistoryItems(InputWithout(n))
                      /\ \A i \in 1..Len(out) :
                            /\ out[i].id # in[n].id
                            /\ \A k \in 1..Len(out[i].items) : out[i].items[k].id # in[n].id
            /\ {UrlA, UrlWwwA} \subseteq InputUrls =>
                  \E i \in 1..Len(out) :
                      /\ out[i].isGroup
                      /\ out[i].text = HostText(<<"a", "com">>)
                      /\ {UrlA, UrlWwwA} \subseteq
                            {out[i].items[k].url : k \in 1..Len(out[i].items)}

\* C31 happens: between the records of https://a.com/ and https://www.a.com/
\* the input has one with no url and one whose url does not parse, and the
\* output is the one group a.com of the two pages.
C31_Witness ==
    /\ fnDone
    /\ fnIn.historyItems =
          <<Raw(1, UrlA, Text("A"), 1), Raw(8, Text(""), Text("E"), 2),
            Raw(9, Text("bad"), Text("X"), 3), Raw(3, UrlWwwA, Text(""), 2)>>
    /\ Len(fnOut.historySuggestions) = 1
    /\ fnOut.historySuggestions[1].isGroup
    /\ Len(fnOut.historySuggestions[1].items) = 2

\* C32: the step that renders an aggregation is the step in which the last of
\* its provider requests settles: before it the aggregation is in flight with
\* exactly one request pending, after it the aggregation is gone, and what is
\* shown is the merge of both providers' results, made in that step.
C32_RenderAfterBarrier ==
    [][ lastRender' # lastRender =>
          LET g == lastRender'.gen
          IN  /\ g \in DOMAIN aggs
              /\ g \notin DOMAIN aggs'
              /\ (aggs[g].hist = "pending") # (aggs[g].goog = "pending")
              /\ lastRender'.kind = "fetch" =>
                    /\ aggs[g].goog \in {"pending", "done"}
                    /\ historyAvailable => aggs[g].hist \in {"pending", "done"}
                    /\ lastRender'.googKind # "none"
                    /\ lastRender'.combined =
                          MergeSuggestions(lastRender'.historySuggestions,
                                           lastRender'.googleSuggestions)
                    /\ matchesList' = lastRender'.combined
      ]_vars

\* C32 happens: a fetchSuggestions call whose two providers both answered with
\* results has rendered their merge.
C32_Witness ==
    /\ lastRender.kind = "fetch"
    /\ lastRender.historySuggestions # <<>>
    /\ lastRender.googleSuggestions # <<>>
    /\ matchesList = lastRender.historySuggestions \o lastRender.googleSuggestions

\* C33: performSearch with no url and a query that is empty once trimmed
\* leaves the view's location as it was and creates no tab, whether or not a
\* background tab was asked for.
C33_EmptyQueryNoOp ==
    fnDone /\ ~Truthy(fnIn.url) /\ TrimChars(fnIn.query) = <<>> =>
        /\ fnOut.location = ThisPage
        /\ fnOut.createdTabs = <<>>
        /\ FnTargets = {}

\* C33 happens: performSearch was applied to a query of whitespace only, with
\* no url and a background tab asked for.
C33_Witness ==
    /\ fnDone
    /\ fnIn.query = <<" ", "\t", " ">>
    /\ ~Truthy(fnIn.url)
    /\ fnIn.inNewTab
    /\ fnOut = Sink

\* C34: in every state the panel is shown, with display 'block' and the form
\* marked suggestions-active, exactly when it has at least one row; otherwise
\* display is 'none' and the mark is off.
C34_VisibleIffRows ==
    /\ display \in {"block", "none"}
    /\ display = "block" <=> Len(matchesList) >= 1
    /\ suggestionsActive <=> Len(matchesList) >= 1

\* C34 happens: an aggregation whose merge was empty was rendered over an open
\* panel, and the panel is hidden with no row.
C34_Witness ==
    /\ viewLog.event = "clear"
    /\ viewLog.display = "block"
    /\ lastRender.gen = abortController
    /\ lastRender.kind = "fetch"
    /\ lastRender.combined = <<>>
    /\ focused
    /\ display = "none"

\* C35: every controller but the current one is aborted, so every aggregation
\* in flight that is not the current one holds an aborted signal, and at most
\* one generation is not aborted.
C35_OneLiveGeneration ==
    /\ \A g \in 0..(abortController - 1) : g \in aborted
    /\ \A g \in DOMAIN aggs : g # abortController => g \in aborted
    /\ Cardinality((0..abortController) \ aborted) <= 1

\* C35 happens: an aggregation is in flight, still waiting for the history
\* provider, while a later one holds the current controller.
C35_Witness ==
    \E g \in DOMAIN aggs :
        /\ g < abortController
        /\ g \in aborted
        /\ aggs[g].hist = "pending"
        /\ abortController \in DOMAIN aggs
        /\ abortController \notin aborted


\* C36: once Escape, a mousedown outside the search container or the window's
\* blur has closed the open panel, the panel stays closed until the next
\* focus or input event on the search input.
C36_ClosedStaysClosed == closedBy # "none" => display = "none"


\* Nothing is pending: no debounce timer, no provider request, no deleteUrl.
Quiescent == timers = {} /\ DOMAIN aggs = {} /\ deletes = <<>>

\* C37: with the input focused, the panel not closed and nothing pending, the
\* list on display is the result for the text in the input: the merged
\* suggestions for its trimmed value, or the initial view when that is empty.
\* A behaviour that stops at such a state stays in it for ever.
C37_QuiescentShowsCurrent ==
    focused /\ windowFocused /\ closedBy = "none" /\ Quiescent =>
        /\ lastRender.kind = IF Trim(inputValue) # "" THEN "fetch" ELSE "initial"
        /\ lastRender.query = Trim(inputValue)
        /\ matchesList = lastRender.combined


\* This step starts the refresh: a new controller, and an aggregation chosen
\* from the text the input holds at the step.
RefreshStarts ==
    /\ abortController' = abortController + 1
    /\ abortController' \in DOMAIN aggs'
    /\ aggs'[abortController'].kind = IF Trim(inputValue) # "" THEN "fetch" ELSE "initial"
    /\ aggs'[abortController'].query = Trim(inputValue)

\* C38: a call of handleDeleteSuggestion on a history entry with a url hands
\* the url to deleteUrl and starts no refresh; the refresh starts at the
\* provider's acknowledgement, with that url gone from the history, chosen
\* from the input's text at that moment. A call on any other entry calls no
\* deleteUrl and starts the refresh in the same step.
C38_RefreshAfterDeleteAck ==
    [][/\ fnOut'.calls # fnOut.calls /\ fnIn'.type = "history" /\ Truthy(fnIn'.url) =>
            /\ deletes' = Append(deletes, fnIn'.url)
            /\ UNCHANGED <<abortController, aborted, aggs, matchesList, display, historyStore>>
       /\ fnOut'.calls # fnOut.calls /\ ~(fnIn'.type = "history" /\ Truthy(fnIn'.url)) =>
            /\ UNCHANGED <<deletes, historyStore>>
            /\ RefreshStarts
       /\ Len(deletes') < Len(deletes) =>
            /\ \E n \in 1..Len(deletes) : historyStore' = DeleteUrl(historyStore, deletes[n])
            /\ RefreshStarts]_vars

\* A history entry's delete has been acknowledged, its url is gone from the
\* history, and with "b" in the input the refresh in flight is a fetch.
C38_Witness ==
    /\ fnOut.calls > 0
    /\ fnIn.type = "history" /\ Truthy(fnIn.url)
    /\ viewLog.event = "deleted"
    /\ deletes = <<>>
    /\ \A r \in historyStore : r.url # fnIn.url
    /\ inputValue = "b"
    /\ abortController \in DOMAIN aggs
    /\ aggs[abortController].kind = "fetch"
    /\ aggs[abortController].hist = "pending"

=============================================================================
